---- MODULE Spec2Model ----
(***************************************************************************)
(* Model of the OTLP ingestion gateway (packages/api/src/otelGateway/      *)
(* server.ts): bearer-token extraction, the authentication cache, shard    *)
(* routing, the HTTP request/response gateway, the gRPC streaming gateway  *)
(* and the pool of outbound HTTP/2 sessions.                               *)
(*                                                                         *)
(* Strings that the code inspects character by character (header values,  *)
(* tokens, shard ids) are sequences of one-character strings.  An optional *)
(* value (T | null | undefined) is a sequence of length 0 or 1.            *)
(***************************************************************************)
EXTENDS Integers, Sequences, FiniteSets, TLC

\* ------------------------------------------------------------------ bounds

\* Number of inbound requests/streams the gateway receives.
MaxReq == 3
\* Number of them that arrive while routing and the pool are explored.
MaxRouted == 2
\* Number of body chunks a client sends on one request/stream.
MaxChunks == 1
\* Chunks of a body in the specification of the byte accounting.
MaxCapture == 2
\* Number of cache validity periods the clock runs through.
MaxPeriods == 1
\* Number of outbound HTTP/2 sessions the gateway may create.
MaxSessions == 2

\* --------------------------------------------------------------- constants

\* Cache validity of an authorization record, in milliseconds.
TTL == 60000

\* `const maxSampleSize = 1024`
maxSampleSize == 1024

\* Chunk lengths: empty, short, and longer than the sample.
ChunkLens == {0, 1, maxSampleSize + 1}

\* Math.min
Min(a, b) == IF a <= b THEN a ELSE b

\* --------------------------------------------------------------- optionals

None == <<>>
Some(x) == <<x>>
IsSome(o) == o # <<>>
Val(o) == o[1]

\* ----------------------------------------------------------------- strings

\* The characters \s matches among those a header value can hold.
WS == {" ", "\t"}

Digits == <<"0", "1", "2", "3", "4", "5", "6", "7", "8", "9">>

IsDigit(c) == \E i \in 1..10 : Digits[i] = c

DigitVal(c) == (CHOOSE i \in 1..10 : Digits[i] = c) - 1

RECURSIVE trimStart(_)
trimStart(s) ==
    IF s = <<>> THEN s
    ELSE IF Head(s) \in WS THEN trimStart(Tail(s)) ELSE s

RECURSIVE trimEnd(_)
trimEnd(s) ==
    IF s = <<>> THEN s
    ELSE IF s[Len(s)] \in WS THEN trimEnd(SubSeq(s, 1, Len(s) - 1)) ELSE s

\* String.prototype.trim
trim(s) == trimEnd(trimStart(s))

\* Number.parseInt(ds, 10) of a non-empty string of decimal digits.
RECURSIVE parseInt(_)
parseInt(ds) ==
    IF ds = <<>> THEN 0
    ELSE 10 * parseInt(SubSeq(ds, 1, Len(ds) - 1)) + DigitVal(ds[Len(ds)])

\* String.prototype.toLowerCase on the header names the model uses.
toLowerCase(k) ==
    CASE k = "Authorization" -> "authorization"
      [] k = "AUTHORIZATION" -> "authorization"
      [] k = "X-Hdx-Team-Id" -> "x-hdx-team-id"
      [] OTHER -> k

\* ------------------------------------------------------- token extraction

\* A header value is a string or an array of strings.
StrValue(s) == [isArray |-> FALSE, items |-> <<s>>]
ArrValue(ss) == [isArray |-> TRUE, items |-> ss]

\* JavaScript truthiness of a header value: an array is always truthy, a
\* string is truthy when it is not empty.
Truthy(v) == v.isArray \/ v.items[1] # <<>>

\* getAuthHeader reading the lower-case key only.
getAuthHeader_LowercaseOnly(headers) ==
    LET lower == {i \in 1..Len(headers) :
                      headers[i].key = "authorization" /\ Truthy(headers[i].value)}
    IN  IF lower # {}
        THEN Some(headers[CHOOSE i \in lower : \A j \in lower : i <= j].value)
        ELSE None

\* headers is the sequence of [key, value] entries in Object.keys order.
getAuthHeader(headers) ==
    LET lower == {i \in 1..Len(headers) :
                      headers[i].key = "authorization" /\ Truthy(headers[i].value)}
        anyCase == {i \in 1..Len(headers) :
                      toLowerCase(headers[i].key) = "authorization"}
        first(S) == CHOOSE i \in S : \A j \in S : i <= j
    IN  IF lower # {} THEN Some(headers[first(lower)].value)
        ELSE IF anyCase # {} THEN Some(headers[first(anyCase)].value)
        ELSE None

\* The capture group of /^[Bb]earer\s+(.+)$/ on h, or None when h does not
\* match.  \s+ is greedy and gives back one character when the whitespace
\* run reaches the end of the string.
BearerMatch(h) ==
    IF /\ Len(h) >= 8
       /\ h[1] \in {"B", "b"}
       /\ SubSeq(h, 2, 6) = <<"e", "a", "r", "e", "r">>
       /\ h[7] \in WS
    THEN LET rest == trimStart(SubSeq(h, 7, Len(h)))
         IN  IF rest = <<>> THEN Some(<<h[Len(h)]>>) ELSE Some(rest)
    ELSE None

\* getBearerToken without the trim of a header value that has no scheme.
getBearerToken_NoTrim(authHeader) ==
    LET h == IF authHeader = None THEN None
             ELSE IF Val(authHeader).items = <<>> THEN None
             ELSE Some(Val(authHeader).items[1])
    IN  IF h = None \/ Val(h) = <<>> THEN None
        ELSE LET m == BearerMatch(Val(h))
             IN  IF m # None THEN Some(trim(Val(m))) ELSE h

\* Returns None for null, Some(token) for a string (possibly empty).
getBearerToken(authHeader) ==
    LET h == IF authHeader = None THEN None
             ELSE IF Val(authHeader).isArray
                  THEN (IF Val(authHeader).items = <<>> THEN None
                        ELSE Some(Val(authHeader).items[1]))
                  ELSE Some(Val(authHeader).items[1])
    IN  IF h = None \/ Val(h) = <<>> THEN None
        ELSE LET m == BearerMatch(Val(h))
             IN  IF m # None /\ Val(m) # <<>> THEN Some(trim(Val(m)))
                 ELSE IF trim(Val(h)) # <<>> THEN Some(trim(Val(h))) ELSE None

\* The handlers' test `!token`.
NoToken(token) == token = None \/ Val(token) = <<>>

\* ------------------------------------------------------------ shard router

ShardPrefix == <<"s", "h", "a", "r", "d", "-">>

\* /^shard-(\d+)$/ then Number.parseInt: None when the pattern does not match.
shardIndexFromId(shardId) ==
    IF /\ Len(shardId) > Len(ShardPrefix)
       /\ SubSeq(shardId, 1, Len(ShardPrefix)) = ShardPrefix
       /\ \A i \in (Len(ShardPrefix) + 1)..Len(shardId) : IsDigit(shardId[i])
    THEN Some(parseInt(SubSeq(shardId, Len(ShardPrefix) + 1, Len(shardId))))
    ELSE None

\* pickShardEndpoint taking the shard index as a position counted from one.
pickShardEndpoint_OneBased(shardId, endpoints) ==
    LET idx == shardIndexFromId(shardId)
    IN  IF idx = None THEN None
        ELSE IF Val(idx) \in 1..Len(endpoints) THEN Some(endpoints[Val(idx)])
        ELSE None

\* pickShardEndpoint falling back to the first endpoint instead of null.
pickShardEndpoint_Fallback(shardId, endpoints) ==
    LET idx == shardIndexFromId(shardId)
    IN  IF idx # None /\ Val(idx) + 1 \in 1..Len(endpoints)
        THEN Some(endpoints[Val(idx) + 1])
        ELSE Some(endpoints[1])

\* endpoints[idx] ?? null
pickShardEndpoint(shardId, endpoints) ==
    LET idx == shardIndexFromId(shardId)
    IN  IF idx = None THEN None
        ELSE IF Val(idx) + 1 \in 1..Len(endpoints) THEN Some(endpoints[Val(idx) + 1])
        ELSE None

\* ShardOrDefault without the default: an absent shard stays empty.
ShardOrDefault_NoDefault(assignedShard) ==
    IF assignedShard = None THEN <<>> ELSE Val(assignedShard)

\* auth.assignedShard || 'shard-0'
ShardOrDefault(assignedShard) ==
    IF assignedShard = None \/ Val(assignedShard) = <<>>
    THEN ShardPrefix \o <<"0">>
    ELSE Val(assignedShard)

\* ----------------------------------------------------------- configuration

\* config.INGESTION_SHARD_HTTP_ENDPOINTS
HttpEndpoints == <<"http://h0:9", "http://h1:9">>

\* config.INGESTION_SHARD_GRPC_ENDPOINTS
GrpcEndpoints == <<"http://g0:9", "http://g1:9">>

EndpointsOf(proto) == IF proto = "http" THEN HttpEndpoints ELSE GrpcEndpoints

\* An endpoint string is falsy when it is empty (`if (!target)`).
NoTarget(target) == target = None \/ Val(target) = ""

\* ------------------------------------------------------ credential store

T1 == <<"t", "1">>
T2 == <<"t", "2">>

TokA == <<"a", "b", "c">>
TokB == <<"k">>
Tokens == {TokA, TokB}

Shard(i) == ShardPrefix \o <<Digits[i + 1]>>

\* The records the credential store may hold for a token.
StoreValues(tok) ==
    IF tok = TokA
    THEN {None,
          Some([teamId |-> T1, assignedShard |-> Some(Shard(1))]),
          Some([teamId |-> T1, assignedShard |-> None]),
          Some([teamId |-> T1, assignedShard |-> Some(Shard(5))]),
          Some([teamId |-> T1, assignedShard |-> Some(<<"z", "-", "1">>)])}
    ELSE {None,
          Some([teamId |-> T2, assignedShard |-> Some(Shard(0))])}

\* The stable hash of a token, which keys the cache.
TokenHash(tok) == <<"#">> \o tok

Hashes == {TokenHash(tok) : tok \in Tokens}

\* resolveIngestionToken: the record of the token with its hash, or None.
resolveIngestionToken(st, tok) ==
    IF tok \in DOMAIN st /\ st[tok] # None
    THEN Some([teamId |-> Val(st[tok]).teamId,
               assignedShard |-> Val(st[tok]).assignedShard,
               tokenHash |-> TokenHash(tok)])
    ELSE None

\* ---------------------------------------------------------- inbound inputs

BearerAbc == <<"B", "e", "a", "r", "e", "r", " ">> \o TokA

\* Authorization values built as padding, scheme word, separator, token and
\* padding, each part possibly empty.
SchemeWords ==
    {<<>>, <<"B", "e", "a", "r", "e", "r">>, <<"b", "e", "a", "r", "e", "r">>,
     <<"B", "E", "A", "R", "E", "R">>}

ExtractValues ==
    {pre \o sch \o sep \o tok \o post :
        pre \in {<<>>, <<" ">>}, sch \in SchemeWords,
        sep \in {<<>>, <<" ">>, <<"\t", " ">>},
        tok \in {<<>>, TokB, <<"a", " ", "b">>},
        post \in {<<>>, <<" ">>}}

\* The header sets of the token extraction: no Authorization header, one
\* under each casing of its key with each value, and array values.
ExtractHeaderSets ==
    {<<>>, <<[key |-> "x-hdx-team-id", value |-> StrValue(T2)]>>}
    \cup {<<[key |-> k, value |-> StrValue(v)]>> :
             k \in {"authorization", "Authorization", "AUTHORIZATION"},
             v \in ExtractValues}
    \cup {<<[key |-> "authorization", value |-> ArrValue(vs)]>> :
             vs \in {<<>>, <<BearerAbc, TokB>>, <<<<" ">>, TokB>>}}

\* Header sets with the token of tenant T1 and a tenant header of the
\* client's choosing: absent, another tenant, empty, or an array, placed
\* before or after the Authorization header.  Inbound header names are
\* lower case, as the HTTP parsers deliver them.
SpoofValues == {StrValue(T2), StrValue(T1), StrValue(<<>>), ArrValue(<<T2, T1>>)}

SpoofHeaderSets ==
    {<<[key |-> "authorization", value |-> StrValue(BearerAbc)]>>}
    \cup {<<[key |-> "authorization", value |-> StrValue(BearerAbc)],
             [key |-> "x-hdx-team-id", value |-> v]>> : v \in SpoofValues}
    \cup {<<[key |-> "x-hdx-team-id", value |-> v],
             [key |-> "authorization", value |-> StrValue(BearerAbc)]>> :
             v \in SpoofValues}

\* The header sets a client may send.
HeaderSets ==
    { <<>>,
      <<[key |-> "authorization", value |-> StrValue(BearerAbc)],
        [key |-> "x-hdx-team-id", value |-> StrValue(T2)]>>,
      <<[key |-> "Authorization", value |-> StrValue(TokB)]>>,
      <<[key |-> "authorization", value |-> StrValue(<<>>)]>>,
      <<[key |-> "authorization", value |-> StrValue(<<" ", "\t">>)]>> }

\* ------------------------------------------------------------------- state

VARIABLES
    now,                  \* Date.now()
    store,                \* credential store: token -> optional record
    authCache,            \* token hash -> optional CachedAuth
    req,                  \* inbound requests/streams and their handler state
    out,                  \* outbound request/stream of each inbound one
    sess,                 \* outbound HTTP/2 session objects, in creation order
    sessions,             \* endpoint -> optional session (the pool)
    sessionPingIntervals, \* endpoint -> optional session whose timer is stored
    acq                   \* the getClientSession promise each stream awaits

vars == <<now, store, authCache, req, out, sess, sessions,
          sessionPingIntervals, acq>>

ReqIds == 1..MaxReq

Endpoints == {GrpcEndpoints[i] : i \in 1..Len(GrpcEndpoints)}

NewReq ==
    [proto |-> "none", pc |-> "new", headers |-> <<>>, token |-> None,
     resolved |-> None, auth |-> None, target |-> None,
     status |-> 0, responded |-> 0, ended |-> 0, destroyed |-> FALSE,
     resolverCalls |-> 0, authAt |-> 0, wrote |-> FALSE,
     chunksSent |-> 0, bodyEnded |-> FALSE, bytesReceived |-> 0,
     streamEnded |-> FALSE,  \* the stream handler's guard of safeEnd
     markUsed |-> "none",    \* the detached markIngestionTokenUsed call
     retried |-> FALSE,      \* the handler went through its "Retry once" block
     errLevel |-> "none",    \* level of the 'proxy stream error' log entry
     firstChunk |-> None,    \* the diagnostic sample: [of |-> chunk, len |-> bytes]
     chunks |-> <<>>,        \* the lengths of the body chunks delivered so far
     arrivedAt |-> 0]        \* Date.now() when the handler started (startTime)

NoPromise == [state |-> "none", sess |-> 0, creator |-> FALSE, timer |-> FALSE]

Init ==
    /\ now = 0
    /\ store = [tok \in Tokens |-> None]
    /\ authCache = [h \in Hashes |-> None]
    /\ req = [r \in ReqIds |-> NewReq]
    /\ out = [r \in ReqIds |-> None]
    /\ sess = <<>>
    /\ sessions = [e \in Endpoints |-> None]
    /\ sessionPingIntervals = [e \in Endpoints |-> None]
    /\ acq = [r \in ReqIds |-> NoPromise]

\* ------------------------------------------------------ authenticateToken

\* CacheHit treating a record as valid up to and including its expiresAt.
CacheHit_Inclusive(cached, t) == cached # None /\ Val(cached).expiresAt >= t

\* CacheHit never finding a record: every resolution writes the cache.
CacheHit_Never(cached, t) == FALSE

\* `cached && cached.expiresAt > now`
CacheHit(cached, t) == cached # None /\ Val(cached).expiresAt > t

\* authenticateToken extending the validity of a record each time it is read.
authenticateToken_Sliding(token, resolved, t, cache) ==
    IF resolved = None
    THEN [ret |-> None, cache |-> cache, wrote |-> FALSE]
    ELSE LET tokenHash == Val(resolved).tokenHash
             cached == cache[tokenHash]
             result == [teamId |-> Val(resolved).teamId,
                        assignedShard |-> Val(resolved).assignedShard,
                        expiresAt |-> t + TTL]
         IN  IF CacheHit(cached, t)
             THEN LET kept == Some([Val(cached) EXCEPT !.expiresAt = t + TTL])
                  IN  [ret |-> kept,
                       cache |-> [cache EXCEPT ![tokenHash] = kept],
                       wrote |-> FALSE]
             ELSE [ret |-> Some(result),
                   cache |-> [cache EXCEPT ![tokenHash] = Some(result)],
                   wrote |-> TRUE]

\* authenticateToken reading the cache before it looks at the resolver's
\* answer: a record still valid authorizes a token the resolver rejects.
authenticateToken_CacheFirst(token, resolved, t, cache) ==
    LET tokenHash == TokenHash(token)
        cached == cache[tokenHash]
    IN  IF CacheHit(cached, t)
        THEN [ret |-> cached, cache |-> cache, wrote |-> FALSE]
        ELSE IF resolved = None
        THEN [ret |-> None, cache |-> cache, wrote |-> FALSE]
        ELSE LET result == [teamId |-> Val(resolved).teamId,
                            assignedShard |-> Val(resolved).assignedShard,
                            expiresAt |-> t + TTL]
             IN  [ret |-> Some(result),
                  cache |-> [cache EXCEPT ![tokenHash] = Some(result)],
                  wrote |-> TRUE]

\* authenticateToken remembering an unresolved token for the cache validity:
\* a record with an empty tenant stands for "unresolved".
authenticateToken_NegativeCache(token, resolved, t, cache) ==
    LET tokenHash == TokenHash(token)
        cached == cache[tokenHash]
        negative == [teamId |-> <<>>, assignedShard |-> None, expiresAt |-> t + TTL]
    IN  IF CacheHit(cached, t)
        THEN [ret |-> IF Val(cached).teamId = <<>> THEN None ELSE cached,
              cache |-> cache, wrote |-> FALSE]
        ELSE IF resolved = None
        THEN [ret |-> None,
              cache |-> [cache EXCEPT ![tokenHash] = Some(negative)],
              wrote |-> TRUE]
        ELSE LET result == [teamId |-> Val(resolved).teamId,
                            assignedShard |-> Val(resolved).assignedShard,
                            expiresAt |-> t + TTL]
             IN  [ret |-> Some(result),
                  cache |-> [cache EXCEPT ![tokenHash] = Some(result)],
                  wrote |-> TRUE]

\* authenticateToken(token) after `await resolveIngestionToken(token)`:
\* resolved is the resolver's answer, t is Date.now(), cache is authCache.
\* Yields the value returned, the cache afterwards and whether the cache was
\* written (and markIngestionTokenUsed started).
authenticateToken(token, resolved, t, cache) ==
    IF resolved = None
    THEN [ret |-> None, cache |-> cache, wrote |-> FALSE]
    ELSE LET tokenHash == Val(resolved).tokenHash
             cached == cache[tokenHash]
             result == [teamId |-> Val(resolved).teamId,
                        assignedShard |-> Val(resolved).assignedShard,
                        expiresAt |-> t + TTL]
         IN  IF CacheHit(cached, t)
             THEN [ret |-> cached, cache |-> cache, wrote |-> FALSE]
             ELSE [ret |-> Some(result),
                   cache |-> [cache EXCEPT ![tokenHash] = Some(result)],
                   wrote |-> TRUE]

\* ------------------------------------------------------- connection pool

NewSession(endpoint, r) ==
    [endpoint |-> endpoint, creator |-> r, connecting |-> TRUE,
     closed |-> FALSE, destroyed |-> FALSE,
     queued |-> "none",      \* the 'error'/'close' emission still to come
     timeout |-> TRUE,       \* the creator's 5 s setTimeout is pending
     interval |-> FALSE,     \* this session's ping setInterval is running
     ping |-> FALSE,         \* a ping was sent and its callback is still to run
     errorLogged |-> FALSE]  \* the session's 'error' handler called logger.error

\* Usable taking any registered session, whatever its state.
Usable_Registered(pool, ss, endpoint) == pool[endpoint] # None

\* `existing && !existing.closed && !existing.destroyed`
Usable(pool, ss, endpoint) ==
    /\ pool[endpoint] # None
    /\ ~ss[Val(pool[endpoint])].closed
    /\ ~ss[Val(pool[endpoint])].destroyed

\* Whether getClientSession(endpoint) opens a new session with http2.connect.
Connects(pool, ss, endpoint) == ~Usable(pool, ss, endpoint)

\* getClientSession handing out whatever session is registered for the
\* endpoint, without looking at its state.
getClientSession_ReturnRegistered(pool, ss, endpoint, r) ==
    IF pool[endpoint] # None
    THEN [sess |-> ss,
          promise |-> [state |-> "resolved", sess |-> Val(pool[endpoint]),
                       creator |-> FALSE, timer |-> FALSE]]
    ELSE [sess |-> Append(ss, NewSession(endpoint, r)),
          promise |-> [state |-> "pending", sess |-> Len(ss) + 1,
                       creator |-> TRUE, timer |-> FALSE]]

\* The synchronous body of getClientSession(endpoint), called by stream r:
\* the session objects and the promise afterwards.
getClientSession(pool, ss, endpoint, r) ==
    IF Usable(pool, ss, endpoint)
    THEN LET existing == Val(pool[endpoint])
         IN  IF ss[existing].connecting
             THEN [sess |-> ss,
                   promise |-> [state |-> "pending", sess |-> existing,
                                creator |-> FALSE, timer |-> TRUE]]
             ELSE [sess |-> ss,
                   promise |-> [state |-> "resolved", sess |-> existing,
                                creator |-> FALSE, timer |-> FALSE]]
    ELSE [sess |-> Append(ss, NewSession(endpoint, r)),
          promise |-> [state |-> "pending", sess |-> Len(ss) + 1,
                       creator |-> TRUE, timer |-> FALSE]]

\* resolve/reject of a promise: a settled promise stays as it is.
Settle(p, outcome) ==
    IF p.state = "pending" THEN [p EXCEPT !.state = outcome] ELSE p

\* sessions.delete(endpoint); clearInterval(sessionPingIntervals.get(endpoint));
\* sessionPingIntervals.delete(endpoint)
ClearPing(ss, pings, endpoint) ==
    IF pings[endpoint] # None
    THEN [ss EXCEPT ![Val(pings[endpoint])].interval = FALSE]
    ELSE ss

\* ----------------------------------------------------- inbound responses

\* HTTP: res.writeHead(status) (when no head was sent) and res.end().
HttpFinish(q, status) ==
    [q EXCEPT !.status = IF q.status = 0 THEN status ELSE q.status,
              !.responded = IF q.status = 0 THEN q.responded + 1 ELSE q.responded,
              !.ended = q.ended + 1,
              !.pc = "done"]

\* gRPC: safeRespond({':status': status})
safeRespond(q, status) ==
    IF q.responded = 0 /\ ~q.destroyed
    THEN [q EXCEPT !.status = status, !.responded = 1]
    ELSE q

\* gRPC: safeEnd(); ended counts the calls of stream.end().
safeEnd(q) ==
    IF ~q.streamEnded /\ ~q.destroyed
    THEN [q EXCEPT !.ended = @ + 1, !.streamEnded = TRUE]
    ELSE q

\* ------------------------------------------------------ outbound headers

\* { ...headers, [key]: value }: an own key keeps its place, a new one is added.
RECURSIVE SetHeader(_, _, _)
SetHeader(headers, key, value) ==
    IF headers = <<>> THEN <<[key |-> key, value |-> value]>>
    ELSE IF Head(headers).key = key
         THEN <<[key |-> key, value |-> value]>> \o Tail(headers)
         ELSE <<Head(headers)>> \o SetHeader(Tail(headers), key, value)

\* The value of an own key of a header object, or None.
HeaderOf(headers, key) ==
    LET S == {i \in 1..Len(headers) : headers[i].key = key}
    IN  IF S = {} THEN None ELSE Some(headers[CHOOSE i \in S : TRUE].value)

\* new URL(target).host
HostOf(endpoint) ==
    CASE endpoint = "http://h0:9" -> "h0:9"
      [] endpoint = "http://h1:9" -> "h1:9"
      [] endpoint = "http://g0:9" -> "g0:9"
      [] endpoint = "http://g1:9" -> "g1:9"
      [] OTHER -> ""

\* The outbound HTTP request of http.request(...), lines 353-370.
\* HttpProxyReq spreading the client's headers over the tenant header.
HttpProxyReq_ClientWins(q, target, auth) ==
    [endpoint |-> target,
     headers |-> SetHeader(IF HeaderOf(q.headers, "x-hdx-team-id") = None
                           THEN SetHeader(q.headers, "x-hdx-team-id",
                                          StrValue(auth.teamId))
                           ELSE q.headers,
                           "host", StrValue(<<HostOf(target)>>)),
     session |-> 0, bytes |-> 0, ended |-> FALSE, readEnded |-> FALSE,
     state |-> "open"]

HttpProxyReq(q, target, auth) ==
    [endpoint |-> target,
     headers |-> SetHeader(SetHeader(q.headers, "host", StrValue(<<HostOf(target)>>)),
                           "x-hdx-team-id", StrValue(auth.teamId)),
     session |-> 0, bytes |-> 0, ended |-> FALSE, readEnded |-> FALSE,
     state |-> "open"]

\* The outbound stream of session.request(reqHeaders), lines 821-844.
GrpcProxyStream(q, target, auth, s) ==
    [endpoint |-> target,
     headers |-> SetHeader(SetHeader(q.headers, ":authority", StrValue(<<HostOf(target)>>)),
                           "x-hdx-team-id", StrValue(auth.teamId)),
     session |-> s, bytes |-> 0, ended |-> FALSE, readEnded |-> FALSE,
     state |-> "open"]

\* ------------------------------------------------------------- environment

\* The instants at which the handlers read the clock: around each multiple of
\* the cache validity.
Instants ==
    {t \in {k * TTL + j : k \in 0..MaxPeriods, j \in {-1, 0}} :
        t >= 0 /\ t <= MaxPeriods * TTL}

\* Time passes.
Tick(t) ==
    /\ t > now
    /\ now' = t
    /\ UNCHANGED <<store, authCache, req, out, sess, sessions,
                   sessionPingIntervals, acq>>

\* The owner of the credential store issues, revokes or reassigns a token.
StoreChange(tok, v) ==
    /\ v # store[tok]
    /\ store' = [store EXCEPT ![tok] = v]
    /\ UNCHANGED <<now, authCache, req, out, sess, sessions,
                   sessionPingIntervals, acq>>

\* ------------------------------------------------------- request arrival

\* The handler up to its first suspension: the token is extracted and, when
\* there is one, resolveIngestionToken is called and reads the store.
Received(q0) ==
    IF NoToken(q0.token)
    THEN IF q0.proto = "http"
         THEN [q0 EXCEPT !.pc = "draining"]
         ELSE [safeEnd(safeRespond(q0, 401)) EXCEPT !.pc = "rejected"]
    ELSE [q0 EXCEPT !.pc = "resolving", !.resolverCalls = 1,
                    !.resolved = resolveIngestionToken(store, Val(q0.token))]

\* The request as the handler leaves it at its first suspension.
Arrived(proto, headers) ==
    Received([NewReq EXCEPT !.proto = proto, !.headers = headers,
                            !.arrivedAt = now,
                            !.token = getBearerToken(getAuthHeader(headers))])

\* Requests are numbered in the order of their arrival.
NextToArrive(r) ==
    /\ req[r].pc = "new"
    /\ \A p \in ReqIds : p < r => req[p].pc # "new"

\* httpServer 'request', lines 159-265.
HttpRequest(r, headers) ==
    /\ NextToArrive(r)
    /\ req' = [req EXCEPT ![r] = Arrived("http", headers)]
    /\ UNCHANGED <<now, store, authCache, out, sess,
                   sessions, sessionPingIntervals, acq>>

\* grpcServer 'stream', lines 547-657.
GrpcStream(r, headers) ==
    /\ NextToArrive(r)
    /\ req' = [req EXCEPT ![r] = Arrived("grpc", headers)]
    /\ UNCHANGED <<now, store, authCache, out, sess,
                   sessions, sessionPingIntervals, acq>>

\* ---------------------------------------------------- HTTP: after the auth

\* HttpRouted without the `if (!auth)` branch: an unauthenticated request is
\* routed to the default shard with an empty tenant.
HttpRouted_NoAuthCheck(q, a) ==
    LET auth == IF a.ret = None
                THEN [teamId |-> <<>>, assignedShard |-> None, expiresAt |-> 0]
                ELSE Val(a.ret)
        target == pickShardEndpoint(ShardOrDefault(auth.assignedShard), HttpEndpoints)
        qa == [q EXCEPT !.auth = a.ret, !.target = target]
    IN  IF NoTarget(target)
        THEN [q |-> HttpFinish(qa, 503), out |-> None]
        ELSE [q |-> [qa EXCEPT !.pc = "proxying"],
              out |-> Some(HttpProxyReq(q, Val(target), auth))]

\* HttpRouted answering an unresolved token at once, before the body.
HttpRouted_Eager401(q, a) ==
    IF a.ret = None
    THEN [q |-> HttpFinish(q, 401), out |-> None]
    ELSE LET auth == Val(a.ret)
             target == pickShardEndpoint(ShardOrDefault(auth.assignedShard),
                                         HttpEndpoints)
             qa == [q EXCEPT !.auth = a.ret, !.target = target]
         IN  IF NoTarget(target)
             THEN [q |-> HttpFinish(qa, 503), out |-> None]
             ELSE [q |-> [qa EXCEPT !.pc = "proxying"],
                   out |-> Some(HttpProxyReq(q, Val(target), auth))]

\* The handler from `await authenticateToken(token)` on, lines 265-379; a is
\* what authenticateToken yields.
HttpRouted(q, a) ==
    IF a.ret = None
    THEN [q |-> [q EXCEPT !.pc = "draining"], out |-> None]
    ELSE LET auth == Val(a.ret)
             target == pickShardEndpoint(ShardOrDefault(auth.assignedShard),
                                         HttpEndpoints)
             qa == [q EXCEPT !.auth = a.ret, !.target = target]
         IN  IF NoTarget(target)
             THEN [q |-> HttpFinish(qa, 503), out |-> None]
             ELSE [q |-> [qa EXCEPT !.pc = "proxying"],
                   out |-> Some(HttpProxyReq(q, Val(target), auth))]

HttpAuthResume(r) ==
    /\ req[r].proto = "http"
    /\ req[r].pc = "resolving"
    /\ LET a == authenticateToken(Val(req[r].token), req[r].resolved, now, authCache)
           h == HttpRouted([req[r] EXCEPT !.authAt = now, !.wrote = a.wrote,
                              !.markUsed = IF a.wrote THEN "pending" ELSE @], a)
       IN  /\ authCache' = a.cache
           /\ req' = [req EXCEPT ![r] = h.q]
           /\ out' = [out EXCEPT ![r] = h.out]
    /\ UNCHANGED <<now, store, sess, sessions,
                   sessionPingIntervals, acq>>

\* Capture keeping the latest non-empty chunk as the sample.
Capture_LatestSample(q, len) ==
    [q EXCEPT !.bytesReceived = @ + len,
              !.chunksSent = @ + 1,
              !.firstChunk = IF len > 0
                             THEN Some([of |-> Len(q.chunks) + 1,
                                        len |-> Min(len, maxSampleSize)])
                             ELSE @,
              !.chunks = Append(@, len)]

\* The byte accounting of one chunk of len bytes: the transform of lines
\* 172-179 and 709-715 and the 'data' listeners of lines 240-245, 271-276,
\* 647-653 and 663-669, which are the same statements.  The sample of the
\* first non-empty chunk is chunk.slice(0, Math.min(chunk.length, 1024)).
Capture(q, len) ==
    [q EXCEPT !.bytesReceived = @ + len,
              !.chunksSent = @ + 1,
              !.firstChunk = IF @ = None /\ len > 0
                             THEN Some([of |-> Len(q.chunks) + 1,
                                        len |-> Min(len, maxSampleSize)])
                             ELSE @,
              !.chunks = Append(@, len)]

\* A body chunk of len bytes reaches the sink (lines 240-245, 271-276) or the
\* capture transform and, through it, the outbound request (lines 172-179,
\* 379); the body has at most max chunks.  A chunk that arrives while the
\* handler awaits is buffered by the paused request and reaches its consumer
\* once one is piped.
HttpChunk(r, len, max) ==
    /\ req[r].proto = "http"
    /\ req[r].pc \in {"draining", "proxying"}
    /\ ~req[r].bodyEnded /\ ~req[r].destroyed
    /\ req[r].chunksSent < max
    /\ req' = [req EXCEPT ![r] = Capture(@, len)]
    /\ out' = [out EXCEPT ![r] = IF req[r].pc = "proxying"
                                 THEN Some([Val(@) EXCEPT !.bytes = @ + len])
                                 ELSE @]
    /\ UNCHANGED <<now, store, authCache, sess, sessions,
                   sessionPingIntervals, acq>>

\* The end of the client's body: the sink's 'end' sends the 401 (lines 246-260,
\* 277-292); the pipe ends the outbound request (line 379).
HttpBodyEnd(r) ==
    /\ req[r].proto = "http"
    /\ ~req[r].bodyEnded /\ ~req[r].destroyed
    /\ IF req[r].pc = "draining"
       THEN /\ req' = [req EXCEPT ![r] = HttpFinish([@ EXCEPT !.bodyEnded = TRUE], 401)]
            /\ out' = out
       ELSE /\ req[r].pc = "proxying"
            /\ out' = [out EXCEPT ![r] = Some([Val(@) EXCEPT !.ended = TRUE])]
            /\ req' = [req EXCEPT ![r].bodyEnded = TRUE]
    /\ UNCHANGED <<now, store, authCache, sess, sessions,
                   sessionPingIntervals, acq>>

\* The shard answers: its status is relayed (lines 366-369).
HttpProxyResponse(r, status) ==
    /\ req[r].proto = "http"
    /\ req[r].pc = "proxying"
    /\ req[r].status = 0
    /\ req' = [req EXCEPT ![r].status = status, ![r].responded = @ + 1]
    /\ UNCHANGED <<now, store, authCache, out, sess,
                   sessions, sessionPingIntervals, acq>>

\* The shard's response body ends: proxyRes.pipe(res) ends the response.
HttpProxyEnd(r) ==
    /\ req[r].proto = "http"
    /\ req[r].pc = "proxying"
    /\ req[r].status # 0
    /\ req' = [req EXCEPT ![r].ended = @ + 1, ![r].pc = "done"]
    /\ out' = [out EXCEPT ![r] = Some([Val(@) EXCEPT !.state = "closed"])]
    /\ UNCHANGED <<now, store, authCache, sess, sessions,
                   sessionPingIntervals, acq>>

\* proxyReq 'error', lines 372-376.
HttpProxyError(r) ==
    /\ req[r].proto = "http"
    /\ req[r].pc = "proxying"
    /\ req' = [req EXCEPT ![r] = HttpFinish(@, 502)]
    /\ out' = [out EXCEPT ![r] = Some([Val(@) EXCEPT !.state = "closed"])]
    /\ UNCHANGED <<now, store, authCache, sess, sessions,
                   sessionPingIntervals, acq>>

\* ---------------------------------------------------- gRPC: after the auth

\* safeRespond({':status': status}); safeEnd(); return
GrpcReject(q, status) == [safeEnd(safeRespond(q, status)) EXCEPT !.pc = "done"]

\* The stream handler from `await authenticateToken(token)` to
\* `await getClientSession(target)`, lines 657-756.
GrpcAuthResume(r) ==
    /\ req[r].proto = "grpc"
    /\ req[r].pc = "resolving"
    /\ LET a == authenticateToken(Val(req[r].token), req[r].resolved, now, authCache)
           q == [req[r] EXCEPT !.authAt = now, !.wrote = a.wrote,
                              !.markUsed = IF a.wrote THEN "pending" ELSE @]
       IN  /\ authCache' = a.cache
           /\ IF a.ret = None
              THEN /\ req' = [req EXCEPT ![r] =
                          [safeEnd(safeRespond(q, 401)) EXCEPT !.pc = "rejected"]]
                   /\ UNCHANGED <<sess, acq>>
              ELSE LET target == pickShardEndpoint(
                           ShardOrDefault(Val(a.ret).assignedShard), GrpcEndpoints)
                       qa == [q EXCEPT !.auth = a.ret, !.target = target]
                   IN  IF NoTarget(target)
                       THEN /\ req' = [req EXCEPT ![r] = GrpcReject(qa, 503)]
                            /\ UNCHANGED <<sess, acq>>
                       ELSE LET g == getClientSession(sessions, sess, Val(target), r)
                            IN  /\ Len(g.sess) <= MaxSessions
                                /\ req' = [req EXCEPT ![r] = [qa EXCEPT !.pc = "acquiring"]]
                                /\ sess' = g.sess
                                /\ acq' = [acq EXCEPT ![r] = g.promise]
    /\ UNCHANGED <<now, store, out, sessions,
                   sessionPingIntervals>>

\* `session.destroyed || session.closed || session.connecting`, line 759
Invalid(s) == s.destroyed \/ s.closed \/ s.connecting

\* The final check of the stream handler left out.
Unavailable_Unchecked(s) == FALSE

\* `session.destroyed || session.closed`, line 809
Unavailable(s) == s.destroyed \/ s.closed

\* The handler after the first `await getClientSession(target)` settles, lines
\* 756-781 and 795-844: a 503, a retry, or the outbound stream.
GrpcAcquireResume(r) ==
    /\ req[r].proto = "grpc"
    /\ req[r].pc = "acquiring"
    /\ acq[r].state \in {"resolved", "rejected"}
    /\ LET q == req[r]
           target == Val(q.target)
           s == acq[r].sess
       IN  IF acq[r].state = "rejected"
           THEN /\ req' = [req EXCEPT ![r] = GrpcReject(q, 503)]
                /\ UNCHANGED <<out, sess, sessions, sessionPingIntervals, acq>>
           ELSE IF Invalid(sess[s])
           THEN LET cleared == ClearPing(sess, sessionPingIntervals, target)
                    pool == [sessions EXCEPT ![target] = None]
                    g == getClientSession(pool, cleared, target, r)
                IN  /\ Len(g.sess) <= MaxSessions
                    /\ sessions' = pool
                    /\ sessionPingIntervals' =
                           [sessionPingIntervals EXCEPT ![target] = None]
                    /\ sess' = g.sess
                    /\ acq' = [acq EXCEPT ![r] = g.promise]
                    /\ req' = [req EXCEPT ![r].pc = "retrying", ![r].retried = TRUE]
                    /\ out' = out
           ELSE /\ req' = [req EXCEPT ![r].pc = "bridging"]
                /\ out' = [out EXCEPT ![r] =
                              Some(GrpcProxyStream(q, target, Val(q.auth), s))]
                /\ UNCHANGED <<sess, sessions, sessionPingIntervals, acq>>
    /\ UNCHANGED <<now, store, authCache>>

\* The handler after the retried `await getClientSession(target)` settles,
\* lines 781-793 and 808-844.
GrpcRetryResume(r) ==
    /\ req[r].proto = "grpc"
    /\ req[r].pc = "retrying"
    /\ acq[r].state \in {"resolved", "rejected"}
    /\ LET q == req[r]
           s == acq[r].sess
       IN  IF acq[r].state = "rejected" \/ Unavailable(sess[s])
           THEN /\ req' = [req EXCEPT ![r] = GrpcReject(q, 503)]
                /\ out' = out
           ELSE /\ req' = [req EXCEPT ![r].pc = "bridging"]
                /\ out' = [out EXCEPT ![r] =
                              Some(GrpcProxyStream(q, Val(q.target), Val(q.auth), s))]
    /\ UNCHANGED <<now, store, authCache, sess, sessions,
                   sessionPingIntervals, acq>>

\* A chunk of the inbound stream is counted (lines 646-652, 662-668) or goes
\* through the tracking transform to the outbound stream (lines 709-727, 943).
GrpcChunk(r, len, max) ==
    /\ req[r].proto = "grpc"
    /\ req[r].pc \in {"rejected", "bridging"}
    /\ ~req[r].bodyEnded /\ ~req[r].destroyed
    /\ req[r].chunksSent < max
    /\ req' = [req EXCEPT ![r] = Capture(@, len)]
    /\ out' = [out EXCEPT ![r] = IF req[r].pc = "bridging" /\ Val(@).state = "open"
                                 THEN Some([Val(@) EXCEPT !.bytes = @ + len])
                                 ELSE @]
    /\ UNCHANGED <<now, store, authCache, sess, sessions,
                   sessionPingIntervals, acq>>

\* The client ends the inbound stream: a rejected stream is over; a bridged
\* one ends the outbound stream through the pipe (line 943).
GrpcBodyEnd(r) ==
    /\ req[r].proto = "grpc"
    /\ ~req[r].bodyEnded /\ ~req[r].destroyed
    /\ IF req[r].pc = "rejected"
       THEN /\ req' = [req EXCEPT ![r].pc = "done", ![r].bodyEnded = TRUE]
            /\ out' = out
       ELSE /\ req[r].pc = "bridging"
            /\ Val(out[r]).state = "open"
            /\ out' = [out EXCEPT ![r] = Some([Val(@) EXCEPT !.ended = TRUE])]
            /\ req' = [req EXCEPT ![r].bodyEnded = TRUE]
    /\ UNCHANGED <<now, store, authCache, sess, sessions,
                   sessionPingIntervals, acq>>

\* proxyStream 'response', lines 861-875.
GrpcProxyResponse(r, status) ==
    /\ req[r].proto = "grpc"
    /\ req[r].pc = "bridging"
    /\ Val(out[r]).state = "open"
    /\ req[r].responded = 0
    /\ req' = [req EXCEPT ![r] = safeRespond(@, status)]
    /\ UNCHANGED <<now, store, authCache, out, sess,
                   sessions, sessionPingIntervals, acq>>

\* The codes of the errors a connection may fail with.
ErrorCodes == {"ECONNRESET", "EOTHER"}

\* `const logLevel = isConnectionReset ? 'warn' : 'error'`, line 882
StreamErrorLevel(code) == IF code = "ECONNRESET" THEN "warn" ELSE "error"

\* The proxyStream 'error' handler, lines 877-904.
StreamFailed(q, code) ==
    [safeEnd(safeRespond(q, 502)) EXCEPT !.errLevel = StreamErrorLevel(code)]

\* SessionErrorLogged logging every session error.
SessionErrorLogged_Always(code, connecting) == TRUE

\* Whether the session's 'error' handler calls logger.error, lines 497-518.
SessionErrorLogged(code, connecting) == connecting \/ code # "ECONNRESET"

\* proxyStream 'error' followed by its 'close', lines 877-904 and 916-928.
GrpcProxyError(r, code) ==
    /\ req[r].proto = "grpc"
    /\ req[r].pc = "bridging"
    /\ Val(out[r]).state = "open"
    /\ req' = [req EXCEPT ![r] = [StreamFailed(@, code) EXCEPT !.pc = "done"]]
    /\ out' = [out EXCEPT ![r] = Some([Val(@) EXCEPT !.state = "closed"])]
    /\ UNCHANGED <<now, store, authCache, sess, sessions,
                   sessionPingIntervals, acq>>

\* proxyStream 'close' after the shard has answered, lines 916-928.
GrpcProxyClose(r) ==
    /\ req[r].proto = "grpc"
    /\ req[r].pc = "bridging"
    /\ Val(out[r]).state = "open"
    /\ req[r].responded > 0
    /\ req' = [req EXCEPT ![r] = [safeEnd(@) EXCEPT !.pc = "done"]]
    /\ out' = [out EXCEPT ![r] = Some([Val(@) EXCEPT !.state = "closed"])]
    /\ UNCHANGED <<now, store, authCache, sess, sessions,
                   sessionPingIntervals, acq>>

\* The shard ends its side of the outbound stream after answering:
\* proxyStream.pipe(stream), line 944, ends the inbound stream itself, without
\* safeEnd.  The inbound stream is destroyed only after its END_STREAM has
\* been written, which is later than the 'close' of the outbound stream.
GrpcProxyEnd(r) ==
    /\ req[r].proto = "grpc"
    /\ req[r].pc = "bridging"
    /\ Val(out[r]).state = "open"
    /\ ~Val(out[r]).readEnded
    /\ req[r].responded > 0
    /\ out' = [out EXCEPT ![r] = Some([Val(@) EXCEPT !.readEnded = TRUE])]
    /\ req' = [req EXCEPT ![r].ended = IF req[r].destroyed THEN @ ELSE @ + 1]
    /\ UNCHANGED <<now, store, authCache, sess, sessions,
                   sessionPingIntervals, acq>>

\* The client aborts the inbound stream (RST_STREAM or a lost connection): the
\* stream is destroyed.  The 'aborted' listener, lines 907-914, exists once
\* the outbound stream does: it destroys the outbound stream, whose 'close'
\* then runs safeEnd, lines 916-928.
GrpcAbort(r) ==
    /\ req[r].proto = "grpc"
    /\ req[r].pc \in {"resolving", "acquiring", "retrying", "bridging", "rejected"}
    /\ ~req[r].destroyed
    /\ IF req[r].pc = "bridging" /\ Val(out[r]).state = "open"
       THEN /\ out' = [out EXCEPT ![r] = Some([Val(@) EXCEPT !.state = "destroyed"])]
            /\ req' = [req EXCEPT ![r] =
                   [safeEnd([@ EXCEPT !.destroyed = TRUE]) EXCEPT !.pc = "done"]]
       ELSE /\ out' = out
            /\ req' = [req EXCEPT ![r].destroyed = TRUE,
                                  ![r].pc = IF @ = "rejected" THEN "done" ELSE @]
    /\ UNCHANGED <<now, store, authCache, sess, sessions,
                   sessionPingIntervals, acq>>

\* The client disconnects during an HTTP request.  The handler registers no
\* listener for it and req.pipe(...), line 379, forwards only 'end'.
HttpAbort(r) ==
    /\ req[r].proto = "http"
    /\ req[r].pc \in {"resolving", "draining", "proxying"}
    /\ ~req[r].destroyed
    /\ req' = [req EXCEPT ![r].destroyed = TRUE]
    /\ UNCHANGED <<now, store, authCache, out, sess, sessions,
                   sessionPingIntervals, acq>>

\* The promise of `void markIngestionTokenUsed(resolved.tokenId)`, line 84,
\* settles.  Nothing awaits it and no handler is attached to it: a rejection is
\* an unhandled rejection, which the runtime either only reports or turns into
\* an uncaught exception that ends the process (fatal), cutting every request
\* in progress.
MarkUsedSettles(r, outcome, fatal) ==
    /\ req[r].markUsed = "pending"
    /\ req' = [p \in ReqIds |->
                  LET q == IF p = r THEN [req[p] EXCEPT !.markUsed = outcome]
                           ELSE req[p]
                  IN  IF outcome = "failed" /\ fatal /\ q.pc # "done"
                      THEN [q EXCEPT !.pc = "crashed"]
                      ELSE q]
    /\ UNCHANGED <<now, store, authCache, out, sess, sessions,
                   sessionPingIntervals, acq>>

\* ------------------------------------------------------- session events

SessIds == 1..Len(sess)

\* The promise of the getClientSession call that created session s.
Creates(r, s) == acq[r].sess = s /\ acq[r].creator

\* A promise waiting on session s that another call created (lines 411-424).
Awaits(r, s) == acq[r].sess = s /\ ~acq[r].creator

\* The session connects: s.once('connect'), lines 448-490, and the 'connect'
\* listeners of the calls waiting on it, lines 417-420.
SessConnect(s) ==
    /\ s \in SessIds
    /\ sess[s].connecting
    /\ ~sess[s].destroyed
    /\ LET e == sess[s].endpoint
       IN  /\ sess' = [sess EXCEPT ![s].connecting = FALSE,
                                   ![s].timeout = FALSE,
                                   ![s].interval = TRUE]
           /\ sessions' = [sessions EXCEPT ![e] = Some(s)]
           /\ sessionPingIntervals' = [sessionPingIntervals EXCEPT ![e] = Some(s)]
           /\ acq' = [r \in ReqIds |->
                         IF Creates(r, s) \/ Awaits(r, s)
                         THEN [Settle(acq[r], "resolved") EXCEPT !.timer = FALSE]
                         ELSE acq[r]]
    /\ UNCHANGED <<now, store, authCache, req, out>>

FailureCodes == ErrorCodes \cup {"none"}

\* StreamsOn taking the open streams of every session.
StreamsOn_AnySession(s) ==
    {r \in ReqIds : /\ req[r].proto = "grpc"
                    /\ out[r] # None
                    /\ Val(out[r]).state = "open"}

\* The streams that are open on session s.
StreamsOn(s) ==
    {r \in ReqIds : /\ req[r].proto = "grpc"
                    /\ out[r] # None
                    /\ Val(out[r]).session = s
                    /\ Val(out[r]).state = "open"}

\* The connection of session s fails (code is the error) or is closed by the
\* peer (code is "none"): the session is destroyed at once and so are its
\* streams, with the error if there is one.  A stream destroyed with an error
\* emits 'error' then 'close' (lines 877-904, 916-928), one destroyed without
\* emits 'close' alone.  The session's own 'error' and 'close' come later.
SessFail(s, code) ==
    /\ s \in SessIds
    /\ ~sess[s].destroyed
    /\ sess' = [sess EXCEPT ![s].destroyed = TRUE, ![s].closed = TRUE,
                            ![s].queued = code]
    /\ req' = [r \in ReqIds |->
                  IF r \in StreamsOn(s)
                  THEN [(IF code = "none" THEN safeEnd(req[r])
                         ELSE StreamFailed(req[r], code))
                        EXCEPT !.pc = "done"]
                  ELSE req[r]]
    /\ out' = [r \in ReqIds |->
                  IF r \in StreamsOn(s)
                  THEN Some([Val(out[r]) EXCEPT !.state = "closed"])
                  ELSE out[r]]
    /\ UNCHANGED <<now, store, authCache, sessions,
                   sessionPingIntervals, acq>>

\* s.on('error'), lines 492-526, when an error is emitted, then s.on('close'),
\* lines 528-536; the 'error' listeners of waiting calls, lines 421-424, and
\* of the streams still open on s (sessionErrorHandler, lines 931-937), whose
\* outbound stream is destroyed without an error and so runs safeEnd alone.
SessEmit(s) ==
    /\ s \in SessIds
    /\ sess[s].destroyed
    /\ sess[s].queued # "emitted"
    /\ LET e == sess[s].endpoint
           err == sess[s].queued \in ErrorCodes
           cleared == ClearPing(sess, sessionPingIntervals, e)
       IN  /\ sess' = [cleared EXCEPT
                          ![s].timeout = FALSE, ![s].queued = "emitted",
                          ![s].errorLogged =
                              err /\ SessionErrorLogged(sess[s].queued,
                                                        sess[s].connecting)]
           /\ sessions' = [sessions EXCEPT ![e] = None]
           /\ sessionPingIntervals' = [sessionPingIntervals EXCEPT ![e] = None]
           /\ acq' = [r \in ReqIds |->
                         IF err /\ Creates(r, s) /\ sess[s].connecting
                         THEN Settle(acq[r], "rejected")
                         ELSE IF err /\ Awaits(r, s)
                         THEN [Settle(acq[r], "rejected") EXCEPT !.timer = FALSE]
                         ELSE acq[r]]
           /\ req' = [r \in ReqIds |->
                         IF err /\ r \in StreamsOn(s)
                         THEN [safeEnd(req[r]) EXCEPT !.pc = "done"]
                         ELSE req[r]]
           /\ out' = [r \in ReqIds |->
                         IF err /\ r \in StreamsOn(s)
                         THEN Some([Val(out[r]) EXCEPT !.state = "destroyed"])
                         ELSE out[r]]
    /\ UNCHANGED <<now, store, authCache>>

\* The ping interval of session s fires, lines 458-485.  On a destroyed or
\* closed session the timer stops itself and removes the endpoint's entry of
\* sessionPingIntervals; otherwise s.ping is called, and either throws (the
\* catch block, lines 478-483) or sends a ping whose callback runs later.
PingTick(s, throws) ==
    /\ s \in SessIds
    /\ sess[s].interval
    /\ LET e == sess[s].endpoint
       IN  IF sess[s].destroyed \/ sess[s].closed
           THEN /\ sess' = [sess EXCEPT ![s].interval = FALSE]
                /\ sessionPingIntervals' = [sessionPingIntervals EXCEPT ![e] = None]
                /\ sessions' = sessions
           ELSE IF throws
           THEN /\ sess' = [sess EXCEPT ![s].interval = FALSE]
                /\ sessionPingIntervals' = [sessionPingIntervals EXCEPT ![e] = None]
                /\ sessions' = [sessions EXCEPT ![e] = None]
           ELSE /\ sess' = [sess EXCEPT ![s].ping = TRUE]
                /\ UNCHANGED <<sessions, sessionPingIntervals>>
    /\ UNCHANGED <<now, store, authCache, req, out, acq>>

\* The callback of s.ping runs, lines 466-476, with an error or without.  With
\* an error the entries of the endpoint are removed, the timer of s is
\* stopped and s is destroyed, which closes the streams open on it (their
\* 'close' handlers, lines 916-928).
PingResult(s, err) ==
    /\ s \in SessIds
    /\ sess[s].ping
    /\ LET e == sess[s].endpoint
           torn == err /\ ~sess[s].destroyed
       IN  /\ sess' = [sess EXCEPT
                          ![s].ping = FALSE,
                          ![s].interval = IF err THEN FALSE ELSE @,
                          ![s].destroyed = IF err THEN TRUE ELSE @,
                          ![s].closed = IF torn THEN TRUE ELSE @,
                          ![s].queued = IF torn THEN "none" ELSE @]
           /\ sessions' = IF err THEN [sessions EXCEPT ![e] = None] ELSE sessions
           /\ sessionPingIntervals' =
                  IF err THEN [sessionPingIntervals EXCEPT ![e] = None]
                  ELSE sessionPingIntervals
           /\ req' = [r \in ReqIds |->
                         IF torn /\ r \in StreamsOn(s)
                         THEN [safeEnd(req[r]) EXCEPT !.pc = "done"]
                         ELSE req[r]]
           /\ out' = [r \in ReqIds |->
                         IF torn /\ r \in StreamsOn(s)
                         THEN Some([Val(out[r]) EXCEPT !.state = "closed"])
                         ELSE out[r]]
    /\ UNCHANGED <<now, store, authCache, acq>>

\* The creator's establishment timeout fires, lines 440-445.
ConnTimeout(s) ==
    /\ s \in SessIds
    /\ sess[s].timeout
    /\ sess' = [sess EXCEPT ![s].timeout = FALSE,
                            ![s].destroyed = TRUE,
                            ![s].closed = TRUE,
                            ![s].queued = IF sess[s].destroyed THEN @ ELSE "none"]
    /\ acq' = [r \in ReqIds |->
                  IF Creates(r, s) THEN Settle(acq[r], "rejected") ELSE acq[r]]
    /\ UNCHANGED <<now, store, authCache, req, out, sessions,
                   sessionPingIntervals>>

\* ------------------------------------------------------------ specification

Statuses == {200}

\* What both gateways do with the requests and streams they hold.
Handlers ==
    \/ \E r \in ReqIds : HttpAuthResume(r)
    \/ \E r \in ReqIds : HttpChunk(r, 1, MaxChunks)
    \/ \E r \in ReqIds : HttpBodyEnd(r)
    \/ \E r \in ReqIds, st \in Statuses : HttpProxyResponse(r, st)
    \/ \E r \in ReqIds : HttpProxyEnd(r)
    \/ \E r \in ReqIds : HttpProxyError(r)
    \/ \E r \in ReqIds : GrpcAuthResume(r)
    \/ \E r \in ReqIds : GrpcAcquireResume(r)
    \/ \E r \in ReqIds : GrpcChunk(r, 1, MaxChunks)
    \/ \E r \in ReqIds : GrpcBodyEnd(r)
    \/ \E r \in ReqIds, st \in Statuses : GrpcProxyResponse(r, st)
    \/ \E r \in ReqIds, code \in ErrorCodes : GrpcProxyError(r, code)
    \/ \E r \in ReqIds : GrpcProxyClose(r)
    \/ \E s \in 1..MaxSessions : SessConnect(s)
    \/ \E s \in 1..MaxSessions : SessEmit(s)
    \/ \E s \in 1..MaxSessions : ConnTimeout(s)

\* Authentication and routing of both gateways: any header set on either
\* transport, while the owner of token "abc" issues, reassigns and revokes it.
Next ==
    \/ \E r \in 1..MaxRouted, h \in HeaderSets : HttpRequest(r, h)
    \/ \E r \in 1..MaxRouted, h \in HeaderSets : GrpcStream(r, h)
    \/ \E v \in StoreValues(TokA) : StoreChange(TokA, v)
    \/ Handlers

Spec == Init /\ [][Next]_vars

\* The header sets that carry a token.
TokenHeaderSets == {h \in HeaderSets : ~NoToken(getBearerToken(getAuthHeader(h)))}

\* The records of token "abc" while the cache is explored.
CachedValues ==
    {None,
     Some([teamId |-> T1, assignedShard |-> Some(Shard(1))]),
     Some([teamId |-> T1, assignedShard |-> None])}

\* The authentication cache: HTTP requests with a token, while time passes and
\* both tokens are issued, reassigned and revoked.
NextCache ==
    \/ \E r \in ReqIds, h \in TokenHeaderSets : HttpRequest(r, h)
    \/ \E v \in CachedValues : StoreChange(TokA, v)
    \/ \E v \in StoreValues(TokB) : StoreChange(TokB, v)
    \/ \E t \in Instants : Tick(t)
    \/ \E r \in ReqIds : HttpAuthResume(r)

SpecCache == Init /\ [][NextCache]_vars

\* Both tokens are issued, each for its own shard.
InitPool ==
    /\ now = 0
    /\ store = [tok \in Tokens |->
                   IF tok = TokA
                   THEN Some([teamId |-> T1, assignedShard |-> Some(Shard(1))])
                   ELSE Some([teamId |-> T2, assignedShard |-> Some(Shard(0))])]
    /\ authCache = [h \in Hashes |-> None]
    /\ req = [r \in ReqIds |-> NewReq]
    /\ out = [r \in ReqIds |-> None]
    /\ sess = <<>>
    /\ sessions = [e \in Endpoints |-> None]
    /\ sessionPingIntervals = [e \in Endpoints |-> None]
    /\ acq = [r \in ReqIds |-> NoPromise]

\* The session pool: authenticated streams, while sessions connect, fail, are
\* closed by the peer and time out.
NextPool ==
    \/ \E r \in 1..MaxRouted, h \in TokenHeaderSets : GrpcStream(r, h)
    \/ \E r \in ReqIds : GrpcAuthResume(r)
    \/ \E r \in ReqIds : GrpcAcquireResume(r)
    \/ \E r \in ReqIds : GrpcRetryResume(r)
    \/ \E r \in ReqIds : GrpcChunk(r, 1, MaxChunks)
    \/ \E r \in ReqIds : GrpcBodyEnd(r)
    \/ \E r \in ReqIds, st \in Statuses : GrpcProxyResponse(r, st)
    \/ \E r \in ReqIds, code \in ErrorCodes : GrpcProxyError(r, code)
    \/ \E r \in ReqIds : GrpcProxyClose(r)
    \/ \E s \in 1..MaxSessions : SessConnect(s)
    \/ \E s \in 1..MaxSessions, code \in FailureCodes : SessFail(s, code)
    \/ \E s \in 1..MaxSessions : SessEmit(s)
    \/ \E s \in 1..MaxSessions : ConnTimeout(s)

SpecPool == InitPool /\ [][NextPool]_vars

\* Bridging and cancellation: authenticated streams and HTTP requests, while
\* clients send, end and abort, shards answer, end and fail, and sessions
\* connect, fail, are closed by the peer and time out.
NextBridge ==
    \/ \E r \in 1..MaxRouted, h \in TokenHeaderSets : GrpcStream(r, h)
    \/ \E r \in 1..MaxRouted, h \in TokenHeaderSets : HttpRequest(r, h)
    \/ \E r \in ReqIds : HttpAuthResume(r)
    \/ \E r \in ReqIds : HttpBodyEnd(r)
    \/ \E r \in ReqIds, st \in Statuses : HttpProxyResponse(r, st)
    \/ \E r \in ReqIds : HttpProxyEnd(r)
    \/ \E r \in ReqIds : HttpProxyError(r)
    \/ \E r \in ReqIds : HttpAbort(r)
    \/ \E r \in ReqIds : GrpcAuthResume(r)
    \/ \E r \in ReqIds : GrpcAcquireResume(r)
    \/ \E r \in ReqIds : GrpcRetryResume(r)
    \/ \E r \in ReqIds : GrpcBodyEnd(r)
    \/ \E r \in ReqIds, st \in Statuses : GrpcProxyResponse(r, st)
    \/ \E r \in ReqIds : GrpcProxyEnd(r)
    \/ \E r \in ReqIds, code \in ErrorCodes : GrpcProxyError(r, code)
    \/ \E r \in ReqIds : GrpcProxyClose(r)
    \/ \E r \in ReqIds : GrpcAbort(r)
    \/ \E s \in 1..MaxSessions : SessConnect(s)
    \/ \E s \in 1..MaxSessions, code \in FailureCodes : SessFail(s, code)
    \/ \E s \in 1..MaxSessions : SessEmit(s)
    \/ \E s \in 1..MaxSessions : ConnTimeout(s)

SpecBridge == InitPool /\ [][NextBridge]_vars

\* The pool with its liveness probes: acquisitions, session events and the
\* ping timers of the established sessions.
NextProbe ==
    \/ \E r \in 1..MaxRouted, h \in TokenHeaderSets : GrpcStream(r, h)
    \/ \E r \in ReqIds : GrpcAuthResume(r)
    \/ \E r \in ReqIds : GrpcAcquireResume(r)
    \/ \E r \in ReqIds : GrpcRetryResume(r)
    \/ \E s \in 1..MaxSessions : SessConnect(s)
    \/ \E s \in 1..MaxSessions, code \in FailureCodes : SessFail(s, code)
    \/ \E s \in 1..MaxSessions : SessEmit(s)
    \/ \E s \in 1..MaxSessions : ConnTimeout(s)
    \/ \E s \in 1..MaxSessions, throws \in BOOLEAN : PingTick(s, throws)
    \/ \E s \in 1..MaxSessions, err \in BOOLEAN : PingResult(s, err)

SpecProbe == InitPool /\ [][NextProbe]_vars

\* Byte accounting: one request or stream, with a missing, an unresolvable
\* or a valid token, whose body arrives in chunks of several lengths.
NextCapture ==
    \/ \E h \in HeaderSets : HttpRequest(1, h)
    \/ \E h \in HeaderSets : GrpcStream(1, h)
    \/ \E r \in ReqIds : HttpAuthResume(r)
    \/ \E r \in ReqIds : GrpcAuthResume(r)
    \/ \E r \in ReqIds : GrpcAcquireResume(r)
    \/ \E s \in 1..MaxSessions : SessConnect(s)
    \/ \E r \in ReqIds, len \in ChunkLens : HttpChunk(r, len, MaxCapture)
    \/ \E r \in ReqIds, len \in ChunkLens : GrpcChunk(r, len, MaxCapture)
    \/ \E r \in ReqIds : HttpBodyEnd(r)
    \/ \E r \in ReqIds : GrpcBodyEnd(r)
    \/ \E v \in StoreValues(TokA) : StoreChange(TokA, v)

SpecCapture == Init /\ [][NextCapture]_vars

\* Token extraction: one request or stream arrives with each header set.
NextExtract ==
    \/ \E h \in ExtractHeaderSets : HttpRequest(1, h)
    \/ \E h \in ExtractHeaderSets : GrpcStream(1, h)

SpecExtract == InitPool /\ [][NextExtract]_vars

\* Tenant header: two requests or streams with the same token and tenant
\* headers of the client's choosing are authenticated and forwarded.
NextTenant ==
    \/ \E r \in 1..MaxRouted, h \in SpoofHeaderSets : HttpRequest(r, h)
    \/ \E r \in 1..MaxRouted, h \in SpoofHeaderSets : GrpcStream(r, h)
    \/ \E r \in ReqIds : HttpAuthResume(r)
    \/ \E r \in ReqIds : GrpcAuthResume(r)
    \/ \E r \in ReqIds : GrpcAcquireResume(r)
    \/ \E s \in 1..MaxSessions : SessConnect(s)

SpecTenant == InitPool /\ [][NextTenant]_vars

\* Usage marking: authenticated HTTP requests, while the detached
\* markIngestionTokenUsed calls succeed or fail and shards answer.
NextMark ==
    \/ \E r \in 1..MaxRouted, h \in TokenHeaderSets : HttpRequest(r, h)
    \/ \E r \in ReqIds : HttpAuthResume(r)
    \/ \E r \in ReqIds : HttpChunk(r, 1, MaxChunks)
    \/ \E r \in ReqIds : HttpBodyEnd(r)
    \/ \E r \in ReqIds, st \in Statuses : HttpProxyResponse(r, st)
    \/ \E r \in ReqIds : HttpProxyEnd(r)
    \/ \E r \in ReqIds, o \in {"ok", "failed"}, fatal \in BOOLEAN :
          MarkUsedSettles(r, o, fatal)

SpecMark == InitPool /\ [][NextMark]_vars

\* ------------------------------------------------- routing: C1 to C5

\* The request or stream r has been authenticated with record a.
Authenticated(r) == req[r].auth # None

\* No outbound request or stream, no session acquisition and no session exist
\* for r.
NothingForwarded(r) ==
    /\ out[r] = None
    /\ acq[r] = NoPromise
    /\ \A s \in 1..Len(sess) : sess[s].creator # r

\* r is routed to endpoint e for tenant teamId: an HTTP request has its
\* outbound request there; a stream has asked the pool for the session of e and
\* is refused (503) only when the pool gives it none; the outbound request or
\* stream goes to e and carries teamId.
ForwardedTo(r, e, teamId) ==
    /\ req[r].target = Some(e)
    /\ req[r].status # 401
    /\ req[r].proto = "http" => out[r] # None /\ req[r].status # 503
    /\ req[r].proto = "grpc" =>
          /\ acq[r].state # "none"
          /\ sess[acq[r].sess].endpoint = e
          /\ req[r].status = 503 =>
                acq[r].state = "rejected" \/ Unavailable(sess[acq[r].sess])
          /\ req[r].pc = "bridging" => out[r] # None
    /\ out[r] # None =>
          /\ Val(out[r]).endpoint = e
          /\ HeaderOf(Val(out[r]).headers, "x-hdx-team-id") = Some(StrValue(teamId))
          /\ Cardinality({i \in 1..Len(Val(out[r]).headers) :
                 Val(out[r]).headers[i].key = "x-hdx-team-id"}) = 1
          /\ req[r].proto = "grpc" => sess[Val(out[r]).session].endpoint = e

\* C1: a request or stream whose token the resolver does not know is answered
\* 401 (HTTP: once its body has ended) and nothing is started towards a shard:
\* no outbound request, no session acquisition, no outbound stream.
C1_UnresolvedGets401 ==
    \A r \in ReqIds :
        (req[r].pc \notin {"new", "resolving"} /\ req[r].resolverCalls > 0
            /\ req[r].resolved = None) =>
            /\ ~Authenticated(r)
            /\ req[r].status \in {0, 401}
            /\ req[r].proto = "grpc" => req[r].status = 401
            /\ req[r].pc = "done" => req[r].status = 401
            /\ NothingForwarded(r)

C1_Witness ==
    \E r, p \in ReqIds :
        /\ req[r].proto = "http" /\ req[r].resolverCalls > 0 /\ req[r].resolved = None
        /\ req[r].pc = "done" /\ req[r].status = 401 /\ req[r].bytesReceived > 0
        /\ req[p].proto = "grpc" /\ req[p].resolverCalls > 0 /\ req[p].resolved = None
        /\ req[p].status = 401

\* C2: a request or stream authenticated with a record whose shard is shard-i,
\* i an index of the endpoint list, goes to endpoints[i] and to no other, and
\* its outbound request or stream carries the record's tenant in x-hdx-team-id.
C2_RoutedToAssignedShard ==
    \A r \in ReqIds :
        Authenticated(r) =>
            \A i \in 0..(Len(EndpointsOf(req[r].proto)) - 1) :
                Val(req[r].auth).assignedShard = Some(Shard(i)) =>
                    ForwardedTo(r, EndpointsOf(req[r].proto)[i + 1],
                                Val(req[r].auth).teamId)

C2_Witness ==
    \E r, p \in ReqIds :
        /\ req[r].proto = "http" /\ Authenticated(r)
        /\ Val(req[r].auth).assignedShard = Some(Shard(1))
        /\ out[r] # None /\ Val(out[r]).endpoint = "http://h1:9" /\ Val(out[r]).bytes > 0
        /\ req[p].proto = "grpc" /\ Authenticated(p)
        /\ Val(req[p].auth).assignedShard = Some(Shard(1))
        /\ out[p] # None /\ Val(out[p]).endpoint = "http://g1:9"

\* Shard ids that name no configured endpoint: an index beyond the list, and a
\* text that is not shard-<digits>.
UnroutableShards == {Some(Shard(5)), Some(<<"z", "-", "1">>)}

\* C3: a request or stream authenticated with a record whose shard id is
\* unparseable or out of range is answered 503 and nothing is forwarded: no
\* outbound request, no session acquisition, and the step that answers leaves
\* the pool as it was.
C3_UnroutableGets503 ==
    /\ [](\A r \in ReqIds :
            (Authenticated(r) /\ Val(req[r].auth).assignedShard \in UnroutableShards) =>
                /\ req[r].pc = "done"
                /\ req[r].status = 503
                /\ req[r].target = None
                /\ NothingForwarded(r))
    /\ [][\A r \in ReqIds :
            (req[r].pc = "resolving" /\ req'[r].status = 503) =>
                UNCHANGED <<out, sess, sessions, sessionPingIntervals, acq>>]_vars

C3_Witness ==
    \E r, p \in ReqIds :
        /\ req[r].proto = "http" /\ Authenticated(r) /\ req[r].status = 503
        /\ Val(req[r].auth).assignedShard \in UnroutableShards
        /\ req[p].proto = "grpc" /\ Authenticated(p) /\ req[p].status = 503
        /\ Val(req[p].auth).assignedShard \in UnroutableShards
        /\ out[r] = None /\ acq[p].state = "none"

\* C4: a request or stream authenticated with a record that has no assigned
\* shard is routed as shard-0: it goes to endpoints[0].
C4_DefaultShard ==
    \A r \in ReqIds :
        (Authenticated(r) /\ Val(req[r].auth).assignedShard = None) =>
            ForwardedTo(r, EndpointsOf(req[r].proto)[1], Val(req[r].auth).teamId)

C4_Witness ==
    \E r, p \in ReqIds :
        /\ req[r].proto = "http" /\ Authenticated(r)
        /\ Val(req[r].auth).assignedShard = None
        /\ out[r] # None /\ Val(out[r]).endpoint = "http://h0:9"
        /\ req[p].proto = "grpc" /\ Authenticated(p)
        /\ Val(req[p].auth).assignedShard = None
        /\ out[p] # None /\ Val(out[p]).endpoint = "http://g0:9"

\* The header sets without an Authorization header or with an empty or
\* whitespace-only one.
BlankHeaderSets ==
    { <<>>,
      <<[key |-> "authorization", value |-> StrValue(<<>>)]>>,
      <<[key |-> "authorization", value |-> StrValue(<<" ", "\t">>)]>> }

\* C5: a request or stream without an Authorization header, or with an empty
\* or whitespace-only one, is answered 401 (HTTP: once its body has ended), the
\* resolver is never called for it, and no step of it changes the auth cache.
C5_MissingTokenGets401 ==
    /\ [](\A r \in ReqIds :
            (req[r].pc # "new" /\ req[r].headers \in BlankHeaderSets) =>
                /\ req[r].resolverCalls = 0
                /\ req[r].pc \in {"draining", "rejected", "done"}
                /\ req[r].status \in {0, 401}
                /\ req[r].proto = "grpc" => req[r].status = 401
                /\ req[r].pc = "done" => req[r].status = 401
                /\ ~Authenticated(r)
                /\ NothingForwarded(r))
    /\ [][\A r \in ReqIds :
            (req'[r] # req[r] /\ req'[r].headers \in BlankHeaderSets) =>
                authCache' = authCache]_vars

C5_Witness ==
    \E r, p \in ReqIds :
        /\ req[r].proto = "http" /\ req[r].headers = <<>>
        /\ req[r].pc = "done" /\ req[r].status = 401
        /\ req[p].proto = "grpc" /\ req[p].status = 401
        /\ req[p].headers = <<[key |-> "authorization", value |-> StrValue(<<" ", "\t">>)]>>


\* ------------------------------------------------ properties: the auth cache

\* r and p carried the same token and both were authenticated.
SameTokenAuthenticated(r, p) ==
    /\ r # p
    /\ Authenticated(r) /\ Authenticated(p)
    /\ req[r].token = req[p].token

\* The record authenticateToken would build for r from its resolver answer.
FreshRecord(q, t) ==
    [teamId |-> Val(q.resolved).teamId,
     assignedShard |-> Val(q.resolved).assignedShard,
     expiresAt |-> t + TTL]

\* C6: the resolver is called only on a cache miss: a resolution served from
\* the cache made no resolver call, and two resolutions of the same token less
\* than the cache validity apart made at most one resolver call between them.
C6_ResolverOnlyOnMiss ==
    /\ \A r \in ReqIds :
          (Authenticated(r) /\ ~req[r].wrote) => req[r].resolverCalls = 0
    /\ \A r, p \in ReqIds :
          (SameTokenAuthenticated(r, p)
              /\ req[r].authAt <= req[p].authAt
              /\ req[p].authAt < req[r].authAt + TTL) =>
              req[r].resolverCalls + req[p].resolverCalls <= 1

\* C7 as stated: two successful resolutions of the same token, the second less
\* than the cache validity after the first, return the same tenant and shard
\* and are routed to the same endpoint.
C7_SameWithinTTLOfFirst ==
    \A r, p \in ReqIds :
        (SameTokenAuthenticated(r, p)
            /\ req[r].authAt <= req[p].authAt
            /\ req[p].authAt < req[r].authAt + TTL) =>
            /\ Val(req[p].auth).teamId = Val(req[r].auth).teamId
            /\ Val(req[p].auth).assignedShard = Val(req[r].auth).assignedShard
            /\ req[p].target = req[r].target

\* C7: two successful resolutions of the same token, the second made before
\* the expiresAt of the record the first returned, return that same record:
\* same tenant, same shard, same endpoint, whatever the store answered to
\* the second.
C7_SameUntilExpiry ==
    \A r, p \in ReqIds :
        (SameTokenAuthenticated(r, p)
            /\ req[r].authAt <= req[p].authAt
            /\ req[p].authAt < Val(req[r].auth).expiresAt) =>
            /\ req[p].auth = req[r].auth
            /\ req[p].target = req[r].target

C7_Witness ==
    \E r, p \in ReqIds :
        /\ SameTokenAuthenticated(r, p)
        /\ req[r].authAt < req[p].authAt
        /\ req[p].authAt < Val(req[r].auth).expiresAt
        /\ req[r].wrote /\ ~req[p].wrote
        /\ req[p].resolved # req[r].resolved
        /\ Val(req[p].resolved).assignedShard # Val(req[r].auth).assignedShard
        /\ req[p].target = req[r].target /\ req[p].target # None

\* C8: the cache holds at most one record per token hash; the record
\* authenticateToken returns expires after the moment of the resolution; and
\* a resolution that finds an expired record has called the resolver and
\* replaces the record by one built from that answer, expiring TTL later.
C8_NoExpiredRecord ==
    /\ [](/\ \A h \in Hashes : Len(authCache[h]) <= 1
          /\ \A r \in ReqIds :
                Authenticated(r) =>
                    /\ Val(req[r].auth).expiresAt > req[r].authAt
                    /\ Val(req[r].auth).expiresAt <= req[r].authAt + TTL
                    /\ req[r].wrote =>
                          req[r].auth = Some(FreshRecord(req[r], req[r].authAt)))
    /\ [][\A r \in ReqIds :
            (/\ req[r].pc = "resolving" /\ req'[r].pc # "resolving"
             /\ req[r].resolved # None
             /\ authCache[Val(req[r].resolved).tokenHash] # None
             /\ Val(authCache[Val(req[r].resolved).tokenHash]).expiresAt <= now) =>
                /\ req[r].resolverCalls = 1
                /\ req'[r].wrote
                /\ req'[r].auth = Some(FreshRecord(req[r], now))
                /\ authCache' = [authCache EXCEPT
                      ![Val(req[r].resolved).tokenHash] =
                          Some(FreshRecord(req[r], now))]]_vars

C8_Witness ==
    \E r, p \in ReqIds :
        /\ SameTokenAuthenticated(r, p)
        /\ req[p].authAt = Val(req[r].auth).expiresAt
        /\ req[p].wrote
        /\ Val(req[p].auth).assignedShard # Val(req[r].auth).assignedShard
        /\ authCache[TokenHash(Val(req[p].token))] = req[p].auth

\* C9: an unresolved resolution leaves the auth cache unchanged, and a
\* resolution whose resolver answer is a record authenticates, whatever
\* earlier resolutions of the token answered.
C9_NoNegativeCaching ==
    /\ [](\A r \in ReqIds :
            (req[r].pc \notin {"new", "resolving"} /\ req[r].resolverCalls > 0
                /\ req[r].resolved # None) =>
                /\ Authenticated(r)
                /\ req[r].status # 401)
    /\ [][\A r \in ReqIds :
            (req[r].pc = "resolving" /\ req'[r].pc # "resolving"
                /\ req[r].resolved = None) =>
                authCache' = authCache]_vars

C9_Witness ==
    \E r, p \in ReqIds :
        /\ r < p /\ req[r].token = req[p].token
        /\ req[r].pc \notin {"new", "resolving"} /\ req[r].resolverCalls > 0
        /\ req[r].resolved = None /\ ~Authenticated(r) /\ out[r] = None
        /\ req[p].resolverCalls > 0 /\ req[p].resolved # None
        /\ Authenticated(p) /\ req[p].authAt = req[r].authAt
        /\ out[p] # None

\* ------------------------------------------------ properties: the session pool

\* The sessions being established towards endpoint e.
Establishing(e) ==
    {s \in SessIds : sess[s].endpoint = e /\ sess[s].connecting
                        /\ ~sess[s].destroyed /\ ~sess[s].closed}

\* C10: at most one session is being established per endpoint at any time.
C10_OneEstablishmentPerEndpoint ==
    \A e \in Endpoints : Cardinality(Establishing(e)) <= 1


\* s1 and s2 are the first two sessions opened to endpoint e, and s1 is
\* established and has never failed.  The call that opened s2 was then made
\* while s1 was being established: once s1 is registered only a third session
\* or a failure of s1 can remove it from the pool.
SameWindow(s1, s2, e) ==
    /\ s1 < s2
    /\ sess[s1].endpoint = e /\ sess[s2].endpoint = e
    /\ \A s \in SessIds : (s < s2 /\ sess[s].endpoint = e) => s = s1
    /\ ~sess[s1].destroyed /\ ~sess[s1].closed

\* C11: concurrent acquisitions for a never-before-seen endpoint share one
\* outcome: it never happens that the call which opened the first session has
\* obtained it while a call made during that establishment has failed.
C11_SharedOutcome ==
    \A r, p \in ReqIds : \A s1, s2 \in SessIds : \A e \in Endpoints :
        (SameWindow(s1, s2, e) /\ Creates(r, s1) /\ Creates(p, s2)) =>
            ~(acq[r].state = "resolved" /\ acq[p].state = "rejected")


\* Stream r calls getClientSession in this step (first call or retry).
Acquires(r) ==
    \/ req[r].pc = "resolving" /\ req'[r].pc = "acquiring"
    \/ req[r].pc = "acquiring" /\ req'[r].pc = "retrying"

\* No session is registered for endpoint e, or the registered one is closed
\* or destroyed.
NoLiveSession(e) ==
    \/ sessions[e] = None
    \/ sess[Val(sessions[e])].closed
    \/ sess[Val(sessions[e])].destroyed

\* Session s emits its 'error'/'close' in this step.
Emits(s) == sess[s].queued # "emitted" /\ sess'[s].queued = "emitted"

\* Session s emits 'connect' in this step.
ConnectsNow(s) == sess[s].connecting /\ ~sess'[s].connecting

\* C12: a registered session that emits error or close leaves the pool in
\* that step; an acquisition that finds no usable session registered for its
\* endpoint opens a fresh session; and when that session connects it is
\* registered and the call that opened it obtains it.
C12_SelfHealing ==
    /\ [][\A s \in SessIds :
            (Emits(s) /\ sessions[sess[s].endpoint] = Some(s)) =>
                sessions'[sess[s].endpoint] = None]_vars
    /\ [][\A r \in ReqIds :
            (Acquires(r) /\ NoLiveSession(Val(req'[r].target))) =>
                /\ Len(sess') = Len(sess) + 1
                /\ acq'[r] = [state |-> "pending", sess |-> Len(sess'),
                              creator |-> TRUE, timer |-> FALSE]
                /\ sess'[Len(sess')].endpoint = Val(req'[r].target)
                /\ sess'[Len(sess')].connecting
                /\ ~sess'[Len(sess')].destroyed]_vars
    /\ [][\A s \in SessIds :
            ConnectsNow(s) =>
                /\ sessions'[sess[s].endpoint] = Some(s)
                /\ ~sess'[s].destroyed /\ ~sess'[s].closed
                /\ \A r \in ReqIds :
                      (Creates(r, s) /\ acq[r].state = "pending") =>
                          acq'[r].state = "resolved"]_vars

\* The first session was established, carried a stream, failed and has emitted
\* its events; a later stream bridges over the session opened after it, which
\* is the registered one.
C12_Witness ==
    \E r, p \in ReqIds : \E s1, s2 \in SessIds :
        /\ s1 < s2 /\ sess[s1].endpoint = sess[s2].endpoint
        /\ sess[s1].queued = "emitted" /\ ~sess[s1].connecting
        /\ out[r] # None /\ Val(out[r]).session = s1
        /\ r < p /\ Creates(p, s2) /\ acq[p].state = "resolved"
        /\ sessions[sess[s2].endpoint] = Some(s2)
        /\ ~sess[s2].destroyed
        /\ req[p].pc = "bridging" /\ Val(out[p]).session = s2
        /\ req[p].status = 200


\* ------------------------------------------- properties: bridging, cancellation

\* C13: whatever the order of outbound response, end of data, error and close,
\* inbound abort and session failure, a status is sent on an inbound stream at
\* most once and stream.end() is called on it at most once.
C13_FinalizeOnce ==
    \A r \in ReqIds :
        req[r].proto = "grpc" => req[r].responded <= 1 /\ req[r].ended <= 1


\* C14: no outbound stream is open for an inbound stream that the client has
\* aborted, at whatever point of the stream's life the abort came.
C14_AbortDestroysOutbound ==
    \A r \in ReqIds :
        (req[r].proto = "grpc" /\ req[r].destroyed /\ out[r] # None) =>
            Val(out[r]).state # "open"


\* C15: no outbound request to a shard is open for an HTTP request whose
\* client has disconnected.
C15_DisconnectTearsDownOutbound ==
    \A r \in ReqIds :
        (req[r].proto = "http" /\ req[r].destroyed /\ out[r] # None) =>
            Val(out[r]).state # "open"


\* The outbound request or stream of r goes from open to closed or destroyed
\* in this step while the client is still there.
OutboundCloses(r) ==
    /\ out[r] # None /\ Val(out[r]).state = "open"
    /\ Val(out'[r]).state # "open"
    /\ ~req[r].destroyed /\ ~req'[r].destroyed

\* C16: when the outbound side of a request or stream closes before any
\* status was sent to the client, the client is sent 502 in that step; when a
\* status was already sent, none is sent again and the inbound side is ended.
C16_OutboundFailureFinalizes ==
    [][\A r \in ReqIds :
          OutboundCloses(r) =>
              IF req[r].responded = 0
              THEN req'[r].status = 502 /\ req'[r].responded = 1
              ELSE /\ req'[r].status = req[r].status
                   /\ req'[r].responded = req[r].responded
                   /\ req'[r].ended >= 1]_vars


\* The gateway itself will move r on within a bounded time: its handler is
\* about to resume, or the timer of the establishment it awaits is armed.  A
\* request whose 401 waits for the end of the client's body counts as bounded.
GatewayBounds(r) ==
    \/ req[r].pc \in {"resolving", "draining"}
    \/ /\ req[r].pc \in {"acquiring", "retrying"}
       /\ \/ acq[r].state # "pending"
          \/ sess[acq[r].sess].timeout

\* C17: a request or stream that has no status yet and whose client is still
\* there never depends on the shard alone: the gateway holds a bound on what
\* it waits for, so it cannot hang if the shard never answers.
C17_NeverHangs ==
    \A r \in ReqIds :
        (req[r].pc \notin {"new", "done"} /\ req[r].status = 0
            /\ ~req[r].destroyed) => GatewayBounds(r)


\* -------------------------------------------------- properties: usage marking

TimerArmed(r) ==
    IF acq[r].creator THEN sess[acq[r].sess].timeout ELSE acq[r].timer

\* C19: every call of getClientSession settles within the establishment
\* timeout: a promise that is still pending always has its 5 second timer
\* armed, whatever the order of the session's connect, error, close and
\* timeout events.
C19_PendingHasTimer ==
    \A r \in ReqIds : acq[r].state = "pending" => TimerArmed(r)

\* The promise of r becomes resolved in this step.
ResolvesNow(r) == acq'[r].state = "resolved" /\ acq'[r] # acq[r]

\* C20: at the moment a promise of getClientSession resolves, the session it
\* resolves with is neither closed nor destroyed and is not connecting.
C20_ResolvedSessionIsLive ==
    [][\A r \in ReqIds :
          ResolvesNow(r) =>
              /\ acq'[r].sess \in 1..Len(sess')
              /\ ~sess'[acq'[r].sess].closed
              /\ ~sess'[acq'[r].sess].destroyed
              /\ ~sess'[acq'[r].sess].connecting]_vars

\* One call was resolved by the connect of the session it created, another
\* with that registered session, and a third session was destroyed earlier.
C20_Witness ==
    \E r, p \in ReqIds :
        /\ acq[r].state = "resolved" /\ acq[r].creator
        /\ acq[p].state = "resolved" /\ ~acq[p].creator
        /\ acq[p].sess = acq[r].sess
        /\ ~sess[acq[r].sess].destroyed
        /\ \E s \in SessIds : sess[s].destroyed


\* ------------------------------------------------ properties: retry, probes

\* Stream r leaves the await of its first acquisition in this step.
LeavesAcquiring(r) == req[r].pc = "acquiring" /\ req'[r].pc # "acquiring"

\* Stream r leaves the await of its second acquisition in this step.
LeavesRetrying(r) == req[r].pc = "retrying" /\ req'[r].pc # "retrying"

\* An outbound stream is opened for r in this step.
OpensOutbound(r) == out[r] = None /\ out'[r] # None

\* C21: a stream handler that finds its acquired session closed, destroyed or
\* connecting acquires again, once; a retry that is rejected or yields a
\* closed or destroyed session is answered 503 without an outbound stream; no
\* outbound stream is opened on a closed or destroyed session.
C21_RetryOnceThen503 ==
    [][\A r \in ReqIds :
          /\ (LeavesAcquiring(r) /\ acq[r].state = "resolved"
                 /\ Invalid(sess[acq[r].sess]))
                => (req'[r].pc = "retrying" /\ ~req[r].retried /\ req'[r].retried
                    /\ acq'[r].state # "none" /\ out'[r] = None)
          /\ req[r].pc = "retrying"
                => (req'[r].pc # "acquiring"
                    /\ acq'[r].sess = acq[r].sess
                    /\ acq'[r].creator = acq[r].creator)
          /\ (LeavesRetrying(r)
                 /\ (acq[r].state = "rejected" \/ Unavailable(sess[acq[r].sess])))
                => (req'[r].status = 503 /\ req'[r].pc = "done" /\ out'[r] = None)
          /\ OpensOutbound(r)
                => (/\ ~sess'[Val(out'[r]).session].closed
                    /\ ~sess'[Val(out'[r]).session].destroyed)]_vars

\* A stream was answered 503 after a retry whose session was destroyed
\* between its connect and the handler's resumption.
C21_Witness ==
    \E r \in ReqIds :
        /\ req[r].retried /\ req[r].status = 503 /\ out[r] = None
        /\ acq[r].state = "resolved" /\ sess[acq[r].sess].destroyed


\* C22: every running probe timer belongs to the session registered for its
\* endpoint: no timer runs for a session that is not registered.
C22_TimerOnlyForRegistered ==
    \A s \in SessIds :
        sess[s].interval => sessions[sess[s].endpoint] = Some(s)

\* The probe of s fails in this step: its ping throws, or its callback
\* reports an error.
ProbeFails(s) ==
    /\ s \in SessIds
    /\ ~sess[s].destroyed /\ ~sess[s].closed
    /\ sessions[sess[s].endpoint] = Some(s)
    /\ \/ sess[s].interval /\ ~sess'[s].interval /\ ~sess[s].ping
       \/ sess[s].ping /\ ~sess'[s].ping /\ sessions'[sess[s].endpoint] = None

\* C23: when the probe of a registered session fails, the session is
\* deregistered and destroyed and its probe timer is cancelled.
C23_ProbeFailureTearsDown ==
    [][\A s \in 1..MaxSessions :
          ProbeFails(s) =>
              /\ sessions'[sess[s].endpoint] = None
              /\ ~sess'[s].interval
              /\ sess'[s].destroyed]_vars


\* An event of session s runs a handler that deregisters: its 'error' or
\* 'close' is emitted, its probe fails, or its establishment timeout fires.
EventOf(s) ==
    /\ s \in SessIds
    /\ \/ sess[s].queued # "emitted" /\ sess'[s].queued = "emitted"
       \/ sess[s].interval /\ ~sess'[s].interval
       \/ sess[s].ping /\ ~sess'[s].ping
       \/ sess[s].timeout /\ ~sess'[s].timeout /\ sess'[s].connecting

\* Session o is live and registered for its endpoint.
LiveRegistered(o) ==
    /\ o \in SessIds
    /\ sessions[sess[o].endpoint] = Some(o)
    /\ ~sess[o].destroyed /\ ~sess[o].closed /\ ~sess[o].connecting

\* C30: an event of session s never removes another, live session that is
\* registered for the same endpoint, nor cancels that session's probe timer.
C30_StaleEventKeepsLiveSession ==
    [][\A s, o \in 1..MaxSessions :
          (EventOf(s) /\ LiveRegistered(o) /\ o # s)
            => (/\ sessions'[sess[o].endpoint] = Some(o)
                /\ sess'[o].interval = sess[o].interval)]_vars


\* ------------------------------------------- properties: resets, isolation

\* The 'error' event of session s is emitted in this step with a reset.
EmitsReset(s) ==
    /\ s \in SessIds
    /\ sess[s].queued = "ECONNRESET"
    /\ sess'[s].queued = "emitted"

\* The connection of session s is reset in this step.
ResetNow(s) ==
    /\ s \in SessIds
    /\ ~sess[s].destroyed
    /\ sess'[s].queued = "ECONNRESET"

\* C24: a connection reset during establishment rejects the acquisition, and
\* the stream awaiting it is answered 503; a reset of an established session
\* is not logged as an error, neither by the session nor by its streams, and
\* only deregisters the session: no acquisition that returned it changes.
C24_ResetClassification ==
    [][/\ \A s \in 1..MaxSessions :
             EmitsReset(s) =>
                 IF sess[s].connecting
                 THEN \A r \in ReqIds :
                          (Creates(r, s) /\ acq[r].state = "pending")
                              => acq'[r].state = "rejected"
                 ELSE /\ ~sess'[s].errorLogged
                      /\ sessions'[sess[s].endpoint] = None
                      /\ acq' = acq
                      /\ req' = req
       /\ \A s \in 1..MaxSessions :
             (ResetNow(s) /\ ~sess[s].connecting) =>
                 /\ acq' = acq
                 /\ \A r \in StreamsOn(s) : req'[r].errLevel = "warn"
       /\ \A r \in ReqIds :
             (LeavesAcquiring(r) /\ acq[r].state = "rejected")
                 => (req'[r].status = 503 /\ req'[r].pc = "done"
                     /\ out'[r] = None)]_vars

\* An established session was reset under a bridged stream and its 'error'
\* was emitted without an error log, while a stream whose own session failed
\* during establishment was answered 503.
C24_Witness ==
    \E r, p \in ReqIds : \E s, c \in SessIds :
        /\ ~sess[s].connecting /\ sess[s].queued = "emitted"
        /\ ~sess[s].errorLogged
        /\ acq[r].sess = s /\ acq[r].state = "resolved"
        /\ req[r].errLevel = "warn" /\ req[r].status = 502
        /\ sess[c].connecting /\ sess[c].queued = "emitted"
        /\ sess[c].errorLogged
        /\ Creates(p, c) /\ acq[p].state = "rejected" /\ req[p].status = 503


\* ---------------------------------------------- properties: byte accounting

\* The sum of the chunk lengths of a body.
RECURSIVE SumOf(_)
SumOf(cs) == IF cs = <<>> THEN 0 ELSE Head(cs) + SumOf(Tail(cs))

\* The sample the handler must hold after the chunks cs: none while every
\* chunk was empty, else the first non-empty chunk cut to maxSampleSize.
SampleOf(cs) ==
    LET nonEmpty == {i \in 1..Len(cs) : cs[i] > 0}
    IN  IF nonEmpty = {} THEN None
        ELSE LET first == CHOOSE i \in nonEmpty : \A j \in nonEmpty : i <= j
             IN  Some([of |-> first,
                       len |-> IF cs[first] <= maxSampleSize THEN cs[first]
                               ELSE maxSampleSize])

\* C25: an HTTP request with a missing or unresolvable token gets its 401
\* only after its body has ended, and the bytes counted by then are the
\* bytes of the body.
C25_Http401AfterDrain ==
    \A r \in ReqIds :
        (req[r].proto = "http" /\ req[r].status = 401) =>
            /\ req[r].bodyEnded
            /\ req[r].bytesReceived = SumOf(req[r].chunks)
            /\ req[r].auth = None

\* An HTTP request with an unresolvable token was answered 401 after a body
\* of two chunks, one longer than the sample.
C25_Witness ==
    \E r \in ReqIds :
        /\ req[r].proto = "http" /\ req[r].status = 401
        /\ ~NoToken(req[r].token) /\ req[r].resolved = None
        /\ req[r].chunks = <<maxSampleSize + 1, 1>>
        /\ req[r].bytesReceived = maxSampleSize + 2

AuthValue(headers) ==
    LET S == {i \in 1..Len(headers) : toLowerCase(headers[i].key) = "authorization"}
    IN  IF S = {} THEN None
        ELSE LET v == headers[CHOOSE i \in S : \A j \in S : i <= j].value
             IN  IF v.items = <<>> THEN None ELSE Some(v.items[1])

\* v starts with the scheme word and one whitespace character.
HasScheme(v) ==
    /\ Len(v) >= 7
    /\ SubSeq(v, 1, 6) \in {<<"B", "e", "a", "r", "e", "r">>,
                            <<"b", "e", "a", "r", "e", "r">>}
    /\ v[7] \in WS

\* What follows the scheme word and all the whitespace after it.
AfterScheme(v) == trimStart(SubSeq(v, 7, Len(v)))

\* v has the form 'Bearer <token>'.
BearerForm(v) == HasScheme(v) /\ AfterScheme(v) # <<>>

\* The token of request r is tok; None stands for no token.
TokenIs(r, tok) ==
    IF tok = None THEN NoToken(req[r].token) ELSE req[r].token = tok

\* C27 as stated: a value of the form 'Bearer <token>' yields <token>, any
\* other value yields the entire trimmed value, and an absent, empty or
\* whitespace-only value yields no token.
C27_TokenExtraction ==
    \A r \in ReqIds :
        req[r].pc # "new" =>
            LET a == AuthValue(req[r].headers)
            IN  IF a = None \/ trim(Val(a)) = <<>> THEN TokenIs(r, None)
                ELSE IF BearerForm(Val(a))
                     THEN TokenIs(r, Some(trim(AfterScheme(Val(a)))))
                     ELSE TokenIs(r, Some(trim(Val(a))))

\* C27, amended: as above, except that the scheme word followed by two or
\* more whitespace characters and nothing else yields no token.
C27_TokenExtractionExact ==
    \A r \in ReqIds :
        req[r].pc # "new" =>
            LET a == AuthValue(req[r].headers)
            IN  IF a = None \/ trim(Val(a)) = <<>> THEN TokenIs(r, None)
                ELSE IF BearerForm(Val(a))
                     THEN TokenIs(r, Some(trim(AfterScheme(Val(a)))))
                     ELSE IF HasScheme(Val(a)) /\ Len(Val(a)) >= 8
                     THEN TokenIs(r, None)
                     ELSE TokenIs(r, Some(trim(Val(a))))

\* A request arrived under a capitalised key with the scheme word followed
\* by two whitespace characters only, and has no token.
C27_Witness ==
    \E r \in ReqIds :
        /\ req[r].pc # "new"
        /\ req[r].headers =
               <<[key |-> "Authorization",
                  value |-> StrValue(<<"B", "e", "a", "r", "e", "r", "\t", " ">>)]>>
        /\ NoToken(req[r].token)


\* ------------------------------------------- properties: failure isolation

\* The handler state or the outbound side of p changes in this step.
Changed(p) == req'[p] # req[p] \/ out'[p] # out[p]

\* Request or stream r is answered with an error status in this step.
Rejects(r) == req[r].status = 0 /\ req'[r].status \in {401, 500, 502, 503}

\* Session s is destroyed, or emits its 'error'/'close', in this step.
Breaks(s) ==
    /\ s \in SessIds
    /\ \/ ~sess[s].destroyed /\ sess'[s].destroyed
       \/ sess[s].queued # "emitted" /\ sess'[s].queued = "emitted"

\* The outbound stream of p was opened on session s.
OnSession(p, s) ==
    req[p].proto = "grpc" /\ out[p] # None /\ Val(out[p]).session = s

\* C28: answering one stream with an error ends that stream alone: a sibling
\* changes in the same step only when both ran on the session that breaks in
\* it; a session that breaks touches only the streams opened on it.
C28_FailureIsolation ==
    [][/\ \A r, p \in ReqIds :
             (Rejects(r) /\ p # r /\ Changed(p)) =>
                 \E s \in 1..MaxSessions :
                     Breaks(s) /\ OnSession(r, s) /\ OnSession(p, s)
       /\ \A s \in 1..MaxSessions : \A p \in ReqIds :
             (Breaks(s) /\ Changed(p)) => OnSession(p, s)]_vars

\* A stream was answered 502 because its session was reset while its
\* sibling on another session is still bridged, unanswered and open.
C28_Witness ==
    \E r, p \in ReqIds :
        /\ OnSession(r, Val(out[r]).session)
        /\ req[r].status = 502 /\ sess[Val(out[r]).session].destroyed
        /\ OnSession(p, Val(out[p]).session)
        /\ Val(out[p]).session # Val(out[r]).session
        /\ req[p].pc = "bridging" /\ Val(out[p]).state = "open"
        /\ req[p].ended = 0 /\ ~req[p].destroyed


\* ------------------------------------------------ properties: tenant header

\* The entries of a header set other than the tenant header.
RECURSIVE WithoutTenant(_)
WithoutTenant(headers) ==
    IF headers = <<>> THEN <<>>
    ELSE IF toLowerCase(Head(headers).key) = "x-hdx-team-id"
         THEN WithoutTenant(Tail(headers))
         ELSE <<Head(headers)>> \o WithoutTenant(Tail(headers))

\* The values the outbound request or stream of r carries as tenant header.
OutboundTenant(r) ==
    LET hs == Val(out[r]).headers
    IN  [i \in {j \in 1..Len(hs) : toLowerCase(hs[j].key) = "x-hdx-team-id"}
           |-> hs[i].value]

\* C29: the outbound tenant header is the tenant of the record the token
\* resolved to, once, whatever tenant header the client sent; two requests
\* that differ only in the tenant header they sent carry the same one.
C29_TenantNotSpoofable ==
    /\ \A r \in ReqIds :
          out[r] # None =>
              /\ Cardinality(DOMAIN OutboundTenant(r)) = 1
              /\ \A i \in DOMAIN OutboundTenant(r) :
                    OutboundTenant(r)[i] = StrValue(Val(req[r].auth).teamId)
    /\ \A r, p \in ReqIds :
          (/\ out[r] # None /\ out[p] # None
           /\ req[r].proto = req[p].proto
           /\ WithoutTenant(req[r].headers) = WithoutTenant(req[p].headers))
            => {OutboundTenant(r)[i] : i \in DOMAIN OutboundTenant(r)}
                 = {OutboundTenant(p)[i] : i \in DOMAIN OutboundTenant(p)}

\* Two forwarded HTTP requests and nothing else differs between them than
\* the tenant header: one names another tenant, the other sends none.
C29_Witness ==
    \E r, p \in ReqIds :
        /\ req[r].proto = "http" /\ req[p].proto = "http"
        /\ out[r] # None /\ out[p] # None
        /\ HeaderOf(req[r].headers, "x-hdx-team-id") = Some(StrValue(T2))
        /\ HeaderOf(req[p].headers, "x-hdx-team-id") = None
        /\ WithoutTenant(req[r].headers) = WithoutTenant(req[p].headers)
        /\ HeaderOf(Val(out[r]).headers, "x-hdx-team-id") = Some(StrValue(T1))
        /\ HeaderOf(Val(out[p]).headers, "x-hdx-team-id") = Some(StrValue(T1))


\* ------------------------------------------------ properties: live sessions

\* Session s is established and neither closed nor destroyed.
Live(s) == ~sess[s].connecting /\ ~sess[s].closed /\ ~sess[s].destroyed

\* C31: every established session that is neither closed nor destroyed is
\* the one registered for its endpoint, so an endpoint has at most one.
C31_NoOrphanedSession ==
    /\ \A s \in SessIds : Live(s) => sessions[sess[s].endpoint] = Some(s)
    /\ \A s, o \in SessIds :
          (Live(s) /\ Live(o) /\ sess[s].endpoint = sess[o].endpoint) => s = o


\* ------------------------------------------- properties: validity, revocation

\* The cache holds a record under hash h that has not expired.
Valid(h) == authCache[h] # None /\ Val(authCache[h]).expiresAt > now

\* The authentication of r completes in this step with a resolved token.
Completes(r) ==
    /\ req[r].pc = "resolving" /\ req'[r].pc # "resolving"
    /\ req[r].resolved # None

\* C32: the validity of a record does not slide: a resolution that finds a
\* record that has not expired returns it and leaves the cache as it is,
\* also when it overlaps the resolution that wrote the record; a record is
\* written only when none is valid, with an expiry of 60 s from the write, so
\* no record is valid for more than 60 s after it was stored.
C32_ValidityNotSliding ==
    /\ [](\A h \in Hashes :
             authCache[h] # None => Val(authCache[h]).expiresAt <= now + TTL)
    /\ [][/\ \A h \in Hashes :
                authCache'[h] # authCache[h] =>
                    /\ ~Valid(h)
                    /\ authCache'[h] # None
                    /\ Val(authCache'[h]).expiresAt = now + TTL
          /\ \A r \in ReqIds :
                (Completes(r) /\ Valid(Val(req[r].resolved).tokenHash)) =>
                    /\ authCache' = authCache
                    /\ req'[r].auth = authCache[Val(req[r].resolved).tokenHash]
                    /\ ~req'[r].wrote]_vars

\* Two resolutions of one token overlapped during a miss: p started before
\* r completed and wrote the record, and p then returned that record without
\* writing.
C32_Witness ==
    \E r, p \in ReqIds :
        /\ r # p /\ req[r].token = req[p].token
        /\ req[r].wrote /\ Authenticated(r)
        /\ ~req[p].wrote /\ Authenticated(p)
        /\ req[p].auth = req[r].auth
        /\ req[r].arrivedAt <= req[p].arrivedAt
        /\ req[p].arrivedAt < req[r].authAt
        /\ req[r].authAt <= req[p].authAt
        /\ Val(req[r].auth).expiresAt = req[r].authAt + TTL


\* The resolver reported the token of r as unresolved and authenticateToken
\* has returned.
Revoked(r) ==
    /\ req[r].pc \notin {"new", "resolving"}
    /\ ~NoToken(req[r].token)
    /\ req[r].resolved = None

\* C33: revocation is immediate: a request or stream whose token the resolver
\* reports as unresolved is never authenticated, whatever the cache holds; it
\* writes no record, nothing is forwarded for it, the only status it is
\* answered with is 401, and it is answered 401 when its handling ends
\* without the client having gone away.
C33_RevocationImmediate ==
    \A r \in ReqIds :
        Revoked(r) =>
            /\ ~Authenticated(r)
            /\ ~req[r].wrote
            /\ NothingForwarded(r)
            /\ req[r].status \in {0, 401}
            /\ (req[r].pc \in {"done", "rejected"} /\ ~req[r].destroyed)
                   => req[r].status = 401

\* A request p stored a record for a token; the token was revoked; a later
\* request r with it was answered 401 while that record was still valid.
C33_Witness ==
    \E r, p \in ReqIds :
        /\ r # p /\ req[r].token = req[p].token
        /\ req[p].wrote /\ Authenticated(p)
        /\ req[p].authAt <= req[r].arrivedAt
        /\ Revoked(r) /\ req[r].status = 401
        /\ Val(req[p].auth).expiresAt > req[r].authAt
        /\ authCache[TokenHash(Val(req[r].token))] = req[p].auth

====
